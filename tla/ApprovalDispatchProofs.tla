----------------------- MODULE ApprovalDispatchProofs -----------------------
(***************************************************************************)
(* Proofs about ApprovalDispatch for every set of tasks and intents, every *)
(* budget of attempts and any number of cycles and faults.                 *)
(*                                                                         *)
(* The inductive invariant IInv says, besides the types, that the          *)
(* snapshots of the resume sweep still describe their rows (SnapshotInv),  *)
(* where the loop can be with what in hand (LoopInv), who holds which lock *)
(* (LockInv), and for each intent how many of the orders the broker        *)
(* accepted are explained by what (LossInv, BudgetInv).                    *)
(***************************************************************************)
EXTENDS ApprovalDispatch, TLAPS

\* The row a snapshot was taken of is still approved, undispatched and has
\* the snapshot's attempts: only the sweep itself changes such a row.
Fresh(s) == /\ row[s.id].status = "approved"
            /\ row[s.id].dispatchedAt = "null"
            /\ row[s.id].attempts = s.attempts

SnapshotInv ==
  /\ \A s \in queue : Fresh(s)
  /\ cur # None => Fresh(cur) /\ cur \notin queue

LoopInv ==
  /\ cur # None <=> pc \in {"acquire", "submit", "persist", "mark", "fail"}
  /\ verdict = "accepted" => pc \in {"persist", "mark", "fail"}
  /\ pc \in {"persist", "mark"} => verdict = "accepted"
  /\ pc \in {"persist", "mark"} => sent[cur.id] > 0
  /\ pc = "mark" => fills[cur.id] > 0

\* The loop waits for the one cycle a trigger has on its way or in flight.
Fired(t) == <<t, "trigger">> \in waiting \/ cycle[t].by = "trigger"

FireInv ==
  /\ \A t \in Tasks : Fired(t) => pc = "fire"
  /\ \A t, u \in Tasks : Fired(t) /\ Fired(u) => t = u
  /\ \A t \in Tasks : <<t, "trigger">> \in waiting => cycle[t].by # "trigger"

LockInv ==
  /\ \A t \in Tasks : cycle[t].at # "idle" => lock[t] = "cycle"
  /\ pc \in {"submit", "persist"} => lock[TaskOf[cur.id]] = "resume"

\* An intent in the hands of a cycle is one the gate let through, and the
\* broker has not seen it before the cycle submits it.
CycleInv ==
  \A t \in Tasks :
    cycle[t].at \in {"submit", "persist"} =>
      /\ cycle[t].intent \in Intents
      /\ TaskOf[cycle[t].intent] = t
      /\ row[cycle[t].intent].status = "auto"
      /\ cycle[t].at = "submit" => sent[cycle[t].intent] = 0

\* The sweep knows that the broker has the order; the broker has it, whether
\* the sweep knows or not.
InHand(i)   == cur # None /\ cur.id = i /\ pc \in {"persist", "mark"}
Accepted(i) == cur # None /\ cur.id = i /\ verdict = "accepted"

\* Before it is approved an order is not sent, and has no history.
UndecidedInv(i) ==
  /\ row[i].status \notin {"auto", "approved"} => sent[i] = 0
  /\ row[i].status = "auto" => sent[i] <= 1
  /\ row[i].status # "approved" =>
       row[i].dispatchedAt = "null" /\ row[i].attempts = 0

\* Every accepted order but the one in hand, or the one that settled the row,
\* was misread or lost its mark.
LossInv(i) ==
  /\ sent[i] <= 1 + misread[i] + unmarked[i]
  /\ row[i].status = "approved" /\ row[i].dispatchedAt = "null" /\ ~InHand(i)
       => sent[i] <= misread[i] + unmarked[i]

\* Every accepted order but the one in hand is paid for by an attempt or lost
\* its mark.
BudgetInv(i) ==
  /\ row[i].dispatchedAt = "null" => row[i].attempts < MaxAttempts
  /\ row[i].status = "approved" /\ row[i].dispatchedAt = "null" =>
       /\ sent[i] <= row[i].attempts + unmarked[i] + 1
       /\ ~Accepted(i) => sent[i] <= row[i].attempts + unmarked[i]
  /\ sent[i] <= MaxAttempts + unmarked[i]

SettledInv(i) ==
  row[i].dispatchedAt = "stamped" => \/ sent[i] > 0 /\ fills[i] > 0
                              \/ row[i].attempts = MaxAttempts

AccountInv(i) == UndecidedInv(i) /\ LossInv(i) /\ BudgetInv(i) /\ SettledInv(i)

IntentInv == \A i \in Intents : AccountInv(i)

IInv == /\ TypeOK /\ SnapshotInv /\ LoopInv /\ FireInv /\ LockInv
        /\ CycleInv /\ IntentInv

-----------------------------------------------------------------------------
(* Types.                                                                  *)

\* A counter per intent that counts at most once, and at intent k only.
LEMMA CountOne ==
  ASSUME NEW f \in [Intents -> Nat], NEW g, NEW k \in Intents,
         g = f \/ g = [f EXCEPT ![k] = f[k] + 1]
  PROVE  /\ g \in [Intents -> Nat]
         /\ \A i \in Intents : i # k => g[i] = f[i]
         /\ g[k] \in {f[k], f[k] + 1}
<1>1. CASE g = f
  BY <1>1
<1>2. CASE g = [f EXCEPT ![k] = f[k] + 1]
  BY <1>2
<1> QED  BY <1>1, <1>2

\* The empty table and the idle loop are well typed.
LEMMA InitType == Init => TypeOK
<1> SUFFICES ASSUME Init  PROVE TypeOK
  OBVIOUS
<1>1. row \in [Intents -> Row]
  BY DEF Init, NoRow, Row, Statuses
<1>2. cycle \in [Tasks -> CycleStates]
  BY DEF Init, IdleCycle, CycleStates
<1> QED  BY <1>1, <1>2 DEF Init, TypeOK, TaskStatuses

\* A cycle that changes state is a cycle still.
LEMMA CycleType ==
  ASSUME TypeOK, CycleInv, NEW t \in Tasks, NEW by \in {"tick", "trigger"},
         \/ cycle' = cycle
         \/ cycle' = [cycle EXCEPT ![t] = IdleCycle]
         \/ CycleBegin(t, by)
         \/ \E i \in Intents : CycleRequest(t, i)
         \/ CycleSubmit(t)
         \/ CyclePersist(t)
  PROVE  cycle' \in [Tasks -> CycleStates]
<1>a. cycle \in [Tasks -> CycleStates]
  BY DEF TypeOK
<1> USE <1>a DEF CycleStates
<1>1. CASE cycle' = cycle \/ cycle' = [cycle EXCEPT ![t] = IdleCycle]
  BY <1>1 DEF IdleCycle
<1>2. CASE CycleBegin(t, by)
  BY <1>2 DEF CycleBegin
<1>3. CASE \E i \in Intents : CycleRequest(t, i)
  BY <1>3 DEF CycleRequest, CycleTo
<1>4. CASE CycleSubmit(t)
  BY <1>4 DEF CycleSubmit, CycleTo, CycleInv
<1>5. CASE CyclePersist(t)
  BY <1>5 DEF CyclePersist, CycleTo
<1> QED  BY <1>1, <1>2, <1>3, <1>4, <1>5

\* Whatever changes the approvals table leaves rows in it.
LEMMA RowType ==
  ASSUME TypeOK, NEW i \in Intents,
         \/ \E d \in {"approved", "rejected"} : row' = Resolve(row, i, d)
         \/ row' = CreatePending(row, i, now)
         \/ row' = [row EXCEPT ![i].status = "auto"]
         \/ row' = ExpirePending(row, now)
         \/ row' = MarkDispatched(row, i)
         \/ \E out \in {"retry", "abandon"} : row' = MarkDispatchFailed(row, i, out)
  PROVE  row' \in [Intents -> Row]
<1>a. row \in [Intents -> Row] /\ now \in Nat
  BY DEF TypeOK
<1> USE <1>a DEF Row, Statuses
<1>1. CASE \E d \in {"approved", "rejected"} : row' = Resolve(row, i, d)
  BY <1>1 DEF Resolve
<1>2. CASE row' = CreatePending(row, i, now)
  BY <1>2, TimeoutAssumption DEF CreatePending
<1>3. CASE row' = [row EXCEPT ![i].status = "auto"]
  BY <1>3
<1>4. CASE row' = ExpirePending(row, now)
  BY <1>4 DEF ExpirePending
<1>5. CASE row' = MarkDispatched(row, i)
  BY <1>5 DEF MarkDispatched
<1>6. ASSUME NEW out \in {"retry", "abandon"},
             row' = MarkDispatchFailed(row, i, out)
      PROVE  row' \in [Intents -> Row]
  <2>1. CountAttempt(row, i) \in [Intents -> Row]
    BY DEF CountAttempt
  <2>2. MarkDispatched(CountAttempt(row, i), i) \in [Intents -> Row]
    BY <2>1 DEF MarkDispatched
  <2> QED  BY <1>6, <2>1, <2>2 DEF MarkDispatchFailed
<1> QED  BY <1>1, <1>2, <1>3, <1>4, <1>5, <1>6

\* Every step keeps the types, given that the loop holds a snapshot whenever
\* it works on one and that a cycle about to submit has an intent.
LEMMA NextType ==
  ASSUME TypeOK, LoopInv, CycleInv, [Next]_vars
  PROVE  TypeOK'
<1>a. cur # None => cur.id \in Intents
  BY DEF TypeOK, Snapshots
<1>1. CASE UNCHANGED vars
  BY <1>1 DEF TypeOK, vars, dbVars, cycleVars, sweepVars, lossVars
<1>2. CASE ClockTick
  BY <1>2 DEF ClockTick, TypeOK, dbVars, cycleVars, sweepVars, lossVars
<1>3. ASSUME NEW i \in Intents, NEW d \in {"approved", "rejected"}, Decide(i, d)
      PROVE  TypeOK'
  <2>1. row' \in [Intents -> Row]
    BY <1>3, RowType DEF Decide
  <2> QED  BY <1>3, <2>1 DEF Decide, TypeOK, cycleVars, sweepVars, lossVars
<1>4. ASSUME NEW t \in Tasks, NEW st \in TaskStatuses, SetTaskStatus(t, st)
      PROVE  TypeOK'
  BY <1>4 DEF SetTaskStatus, TypeOK, TaskStatuses, dbVars, cycleVars,
              sweepVars, lossVars
<1>5. ASSUME NEW t \in Tasks, NEW by \in {"tick", "trigger"}, CycleAdmit(t, by)
      PROVE  TypeOK'
  BY <1>5 DEF CycleAdmit, TypeOK, dbVars, sweepVars, lossVars
<1>6. ASSUME NEW t \in Tasks, CycleStep(t)
      PROVE  TypeOK'
  <2>1. ASSUME NEW i \in Intents, CycleRequest(t, i)  PROVE TypeOK'
    <3>1. row' \in [Intents -> Row]
      BY <2>1, RowType DEF CycleRequest
    <3>2. cycle' \in [Tasks -> CycleStates]
      BY <2>1, CycleType
    <3> QED  BY <2>1, <3>1, <3>2 DEF CycleRequest, TypeOK, sweepVars, lossVars
  <2>2. CASE CycleSubmit(t)
    <3>1. cycle' \in [Tasks -> CycleStates]
      BY <2>2, CycleType
    <3>2. sent' \in [Intents -> Nat] /\ faults' \in Nat
      BY <2>2 DEF CycleSubmit, BrokerAccepts, BrokerRefuses, AnswerLost, Fault,
                  NoFault, CycleInv, TypeOK
    <3> QED  BY <2>2, <3>1, <3>2 DEF CycleSubmit, TypeOK, dbVars, sweepVars,
                                     lossVars
  <2>3. CASE CyclePersist(t)
    <3>1. cycle' \in [Tasks -> CycleStates]
      BY <2>3, CycleType
    <3> QED  BY <2>3, <3>1 DEF CyclePersist, CycleInv, TypeOK, sweepVars,
                               lossVars
  <2>4. CASE CycleEnd(t)
    <3>1. cycle' \in [Tasks -> CycleStates]
      BY <2>4, CycleType DEF CycleEnd, CycleLeave
    <3> QED  BY <2>4, <3>1 DEF CycleEnd, CycleLeave, TypeOK, dbVars,
                               sweepVars, lossVars
  <2>5. CASE CycleRaise(t)
    <3>1. cycle' \in [Tasks -> CycleStates]
      BY <2>5, CycleType DEF CycleRaise, CycleLeave
    <3> QED  BY <2>5, <3>1 DEF CycleRaise, CycleLeave, Fault, TypeOK,
                               TaskStatuses, dbVars, sweepVars, lossVars
  <2>6. ASSUME NEW by \in {"tick", "trigger"}, CycleBegin(t, by)  PROVE TypeOK'
    <3>1. cycle' \in [Tasks -> CycleStates]
      BY <2>6, CycleType
    <3> QED  BY <2>6, <3>1 DEF CycleBegin, TypeOK, dbVars, sweepVars, lossVars
  <2> QED  BY <1>6, <2>1, <2>2, <2>3, <2>4, <2>5, <2>6 DEF CycleStep
<1>7. CASE SweepStep
  <2>1. CASE ScanDone
    BY <2>1 DEF ScanDone, Fault, NoFault, SweepUnchanged, TypeOK, dbVars, cycleVars,
                sweepVars, lossVars
  <2>2. CASE SweepExpire
    <3>1. row' \in [Intents -> Row]
      <4>1. CASE row' = row
        BY <4>1 DEF TypeOK
      <4>2. CASE row' = ExpirePending(row, now)
        <5>1. row \in [Intents -> Row] /\ row' = ExpirePending(row, now)
          BY <4>2 DEF TypeOK
        <5> QED  BY <5>1 DEF ExpirePending, Row, Statuses
      <4> QED  BY <2>2, <4>1, <4>2 DEF SweepExpire
    <3> QED  BY <2>2, <3>1 DEF SweepExpire, SweepUnchanged, Fault, NoFault,
                 TypeOK, cycleVars, sweepVars, lossVars
  <2>3. CASE SweepList
    <3>1. queue' \in SUBSET Snapshots
      BY <2>3 DEF SweepList, SnapshotOf, Snapshots, Resumable, TypeOK, Row
    <3> QED  BY <2>3, <3>1 DEF SweepList, SweepUnchanged, Fault, NoFault,
                 TypeOK, dbVars, cycleVars, lossVars
  <2>4. CASE SweepDone
    BY <2>4 DEF SweepDone, SweepUnchanged, TypeOK, dbVars, cycleVars,
                sweepVars, lossVars
  <2>5. ASSUME NEW s \in queue, ResumeNext(s)  PROVE TypeOK'
    BY <2>5 DEF ResumeNext, SweepUnchanged, TypeOK, dbVars, cycleVars, lossVars
  <2>10. CASE ResumeAcquire
    BY <2>10 DEF ResumeAcquire, SweepUnchanged, TypeOK, dbVars, cycleVars,
                 sweepVars, lossVars
  <2>6. CASE ResumeSubmit
    <3>1. cur.id \in Intents
      BY <2>6, <1>a DEF ResumeSubmit, LoopInv
    <3> QED  BY <2>6, <3>1 DEF ResumeSubmit, BrokerAccepts, BrokerRefuses,
                 AnswerLost, Fault, NoFault, Unlock, Misread, SweepUnchanged,
                 TypeOK, dbVars, cycleVars
  <2>7. CASE ResumePersist
    <3>1. cur.id \in Intents
      BY <2>7, <1>a DEF ResumePersist, LoopInv
    <3>2. /\ fills' \in [Intents -> Nat]
          /\ misread' \in [Intents -> Nat]
          /\ faults' \in Nat
      BY <2>7, <3>1 DEF ResumePersist, Misread, Fault, NoFault, TypeOK
    <3> QED  BY <2>7, <3>2 DEF ResumePersist, Unlock, SweepUnchanged, TypeOK,
                 cycleVars, sweepVars
  <2>8. CASE ResumeMark
    <3>1. cur.id \in Intents
      BY <2>8, <1>a DEF ResumeMark, LoopInv
    <3>2. row' \in [Intents -> Row]
      <4>1. CASE row' = row
        BY <4>1 DEF TypeOK
      <4>2. CASE row' = MarkDispatched(row, cur.id)
        BY <4>2, <3>1, RowType
      <4> QED  BY <2>8, <4>1, <4>2 DEF ResumeMark, LoseMark
    <3> QED  BY <2>8, <3>1, <3>2 DEF ResumeMark, LoseMark, Fault, NoFault,
                 NextSnapshot, SweepUnchanged, TypeOK, cycleVars
  <2>9. CASE ResumeFail
    <3>1. cur.id \in Intents
      BY <2>9, <1>a DEF ResumeFail, LoopInv
    <3>2. row' \in [Intents -> Row]
      <4>1. CASE row' = row
        BY <4>1 DEF TypeOK
      <4>2. CASE row' = MarkDispatchFailed(row, cur.id, Outcome(cur))
        BY <4>2, <3>1, RowType DEF Outcome
      <4> QED  BY <2>9, <4>1, <4>2 DEF ResumeFail, LoseMark
    <3> QED  BY <2>9, <3>1, <3>2 DEF ResumeFail, LoseMark, Fault, NoFault,
                 NextSnapshot, SweepUnchanged, TypeOK, cycleVars
  <2> QED  BY <1>7, <2>1, <2>2, <2>3, <2>4, <2>5, <2>6, <2>7, <2>8, <2>9, <2>10
           DEF SweepStep
<1>8. CASE Crash
  <2>1. unmarked' \in [Intents -> Nat]
    BY <1>8, <1>a DEF Crash, LoopInv, TypeOK
  <2>2. cycle' \in [Tasks -> CycleStates]
    BY <1>8 DEF Crash, IdleCycle, CycleStates
  <2>3. lock' \in [Tasks -> {"free", "cycle", "resume"}]
    BY <1>8 DEF Crash
  <2>4. queue' \in SUBSET Snapshots /\ cur' \in Snapshots \cup {None}
    BY <1>8 DEF Crash
  <2>5. up' \in BOOLEAN
    BY <1>8, Zenon DEF Crash
  <2>6. faults' \in Nat
    BY <1>8 DEF Crash, Fault, TypeOK
  <2> QED  BY <1>8, <2>1, <2>2, <2>3, <2>4, <2>5, <2>6 DEF Crash, TypeOK, dbVars
<1>9. CASE Restart
  BY <1>9 DEF Restart, TypeOK, dbVars, cycleVars, sweepVars, lossVars
<1>10. CASE ManualExpire
  <2>1. row \in [Intents -> Row] /\ row' = ExpirePending(row, now)
    BY <1>10 DEF ManualExpire, TypeOK
  <2>2. row' \in [Intents -> Row]
    BY <2>1 DEF ExpirePending, Row, Statuses
  <2> QED  BY <1>10, <2>2 DEF ManualExpire, TypeOK, cycleVars, sweepVars, lossVars
<1> QED  BY <1>1, <1>2, <1>3, <1>4, <1>5, <1>6, <1>7, <1>8, <1>9, <1>10 DEF Next

-----------------------------------------------------------------------------
(* The snapshots of the sweep stay fresh.                                  *)

\* Two snapshots of one row are the same while both are fresh.
LEMMA FreshUnique ==
  ASSUME NEW s \in Snapshots, NEW r \in Snapshots, Fresh(s), Fresh(r),
         s.id = r.id
  PROVE  s = r
  BY DEF Fresh, Snapshots

\* No step but the sweep's own changes a row the sweep has listed, so its
\* snapshots stay true.
LEMMA NextSnapshotInv ==
  ASSUME TypeOK, SnapshotInv, LoopInv, [Next]_vars
  PROVE  SnapshotInv'
<1>a. /\ row \in [Intents -> Row]
      /\ queue \subseteq Snapshots
      /\ cur # None => cur \in Snapshots
      /\ \A s \in Snapshots : s.id \in Intents
  BY DEF TypeOK, Snapshots
\* It is enough that the sweep's snapshots are kept, or dropped, and that no
\* row of a snapshot changes.
<1>b. ASSUME queue' \subseteq queue,
             cur' # None => (cur' = cur \/ cur' \in queue) /\ cur' \notin queue',
             \A i \in Intents : row[i].status = "approved" => row'[i] = row[i]
      PROVE  SnapshotInv'
  BY <1>a, <1>b DEF SnapshotInv, Fresh
<1>1. CASE UNCHANGED <<row, queue, cur>>
  BY <1>1 DEF SnapshotInv, Fresh
<1>2. ASSUME NEW i \in Intents, NEW d \in {"approved", "rejected"}, Decide(i, d)
      PROVE  SnapshotInv'
  <2>1. \A j \in Intents : row[j].status = "approved" => row'[j] = row[j]
    BY <1>2, <1>a DEF Decide, Resolve
  <2> QED  BY <1>2, <2>1, <1>b DEF Decide, SnapshotInv, sweepVars
<1>3. ASSUME NEW t \in Tasks, NEW i \in Intents, CycleRequest(t, i)
      PROVE  SnapshotInv'
  <2>1. \A j \in Intents : row[j].status = "approved" => row'[j] = row[j]
    BY <1>3, <1>a DEF CycleRequest, CreatePending
  <2> QED  BY <1>3, <2>1, <1>b DEF CycleRequest, SnapshotInv, sweepVars
<1>4. CASE SweepExpire \/ ManualExpire
  <2>1. \A j \in Intents : row[j].status = "approved" => row'[j] = row[j]
    BY <1>4, <1>a DEF SweepExpire, ManualExpire, ExpirePending
  <2> QED  BY <1>4, <2>1, <1>b DEF SweepExpire, ManualExpire, SnapshotInv, sweepVars
<1>5. CASE SweepList
  <2>1. cur = None /\ cur' = None
    BY <1>5 DEF SweepList, LoopInv
  <2>2. row' = row
    BY <1>5 DEF SweepList, dbVars
  <2>3. \A s \in queue' : Fresh(s)
    BY <1>5 DEF SweepList, SnapshotOf, Resumable, Fresh
  <2> QED  BY <2>1, <2>2, <2>3 DEF SnapshotInv, Fresh
<1>6. ASSUME NEW s \in queue, ResumeNext(s)
      PROVE  SnapshotInv'
  BY <1>6, <1>b DEF ResumeNext, dbVars
<1>7. CASE ResumeMark \/ ResumeFail
  <2>1. cur # None /\ cur \in Snapshots /\ cur' = None /\ queue' = queue
    BY <1>7, <1>a DEF ResumeMark, ResumeFail, LoopInv, NextSnapshot
  <2>2. \A i \in Intents : i # cur.id => row'[i] = row[i]
    BY <1>7, <1>a, <2>1 DEF ResumeMark, ResumeFail, LoseMark, MarkDispatched,
                            MarkDispatchFailed, CountAttempt
  <2>3. \A s \in queue : s.id # cur.id
    BY <2>1, <1>a, FreshUnique DEF SnapshotInv
  <2> QED  BY <2>1, <2>2, <2>3, <1>a DEF SnapshotInv, Fresh
<1>8. CASE Crash
  BY <1>8, <1>b DEF Crash, dbVars
<1> QED
  <2>1. CASE ClockTick
    BY <2>1, <1>1 DEF ClockTick, dbVars, sweepVars
  <2>2. ASSUME NEW t \in Tasks, NEW st \in TaskStatuses, SetTaskStatus(t, st)
        PROVE  SnapshotInv'
    BY <2>2, <1>1 DEF SetTaskStatus, dbVars, sweepVars
  <2>3. ASSUME NEW t \in Tasks, NEW by \in {"tick", "trigger"}, CycleAdmit(t, by)
        PROVE  SnapshotInv'
    BY <2>3, <1>1 DEF CycleAdmit, dbVars, sweepVars
  <2>4. ASSUME NEW t \in Tasks, CycleStep(t)
        PROVE  SnapshotInv'
    BY <2>4, <1>1, <1>3 DEF CycleStep, CycleBegin, CycleSubmit, CyclePersist,
                            CycleEnd, CycleRaise, dbVars, sweepVars
  <2>5. CASE ScanDone \/ SweepDone \/ ResumeAcquire \/ ResumeSubmit \/ ResumePersist
    BY <2>5, <1>1 DEF ScanDone, SweepDone, ResumeAcquire, ResumeSubmit,
                      ResumePersist, dbVars, sweepVars
  <2>6. CASE Restart
    BY <2>6, <1>1 DEF Restart, dbVars, sweepVars
  <2>7. CASE UNCHANGED vars
    BY <2>7, <1>1 DEF vars, dbVars, sweepVars
  <2> QED  BY <1>2, <1>4, <1>5, <1>6, <1>7, <1>8, <2>1, <2>2, <2>3, <2>4, <2>5,
              <2>6, <2>7 DEF Next, SweepStep

-----------------------------------------------------------------------------
(* Where the loop is, and who holds the locks.                             *)

\* What the loop holds fits the place it is at.
LEMMA NextLoopInv ==
  ASSUME TypeOK, LoopInv, FireInv, CycleInv, [Next]_vars
  PROVE  LoopInv'
<1>a. /\ sent \in [Intents -> Nat] /\ fills \in [Intents -> Nat]
      /\ cur # None => cur.id \in Intents
  BY DEF TypeOK, Snapshots
\* What the sweep does not do leaves its place, its snapshot and the verdict
\* alone, and takes no order and no fill back.
<1>b. ASSUME pc' = pc \/ (pc \in {"scan", "fire"} /\ pc' \in {"scan", "fire"}),
             UNCHANGED <<cur, verdict>>,
             \A i \in Intents : sent'[i] >= sent[i] /\ fills'[i] >= fills[i],
             sent' \in [Intents -> Nat], fills' \in [Intents -> Nat]
      PROVE  LoopInv'
  BY <1>a, <1>b DEF LoopInv
<1>1. CASE UNCHANGED <<cur, verdict, pc, sent, fills>>
  BY <1>1 DEF LoopInv
<1>2. ASSUME NEW t \in Tasks, NEW by \in {"tick", "trigger"}, CycleAdmit(t, by)
      PROVE  LoopInv'
  BY <1>2, <1>a, <1>b DEF CycleAdmit, dbVars, sweepVars
<1>3. ASSUME NEW t \in Tasks, CycleSubmit(t)
      PROVE  LoopInv'
  <2>1. sent' \in [Intents -> Nat] /\ \A i \in Intents : sent'[i] >= sent[i]
    BY <1>3, <1>a DEF CycleSubmit, BrokerAccepts, BrokerRefuses, AnswerLost
  <2> QED  BY <1>3, <2>1, <1>a, <1>b DEF CycleSubmit, dbVars, sweepVars
<1>4. ASSUME NEW t \in Tasks, CyclePersist(t)
      PROVE  LoopInv'
  <2>1. fills' \in [Intents -> Nat] /\ \A i \in Intents : fills'[i] >= fills[i]
    <3>1. PICK x \in Intents : fills' = [fills EXCEPT ![x] = fills[x] + 1]
      BY <1>4 DEF CyclePersist, CycleInv
    <3> QED  BY <3>1, <1>a
  <2> QED  BY <1>4, <2>1, <1>a, <1>b DEF CyclePersist, sweepVars
<1>5. ASSUME NEW t \in Tasks, CycleEnd(t) \/ CycleRaise(t)
      PROVE  LoopInv'
  <2>1. CycleLeave(t) /\ UNCHANGED <<cur, verdict, sent, fills>>
    BY <1>5 DEF CycleEnd, CycleRaise, dbVars, sweepVars
  <2>2. pc' = pc \/ (pc = "fire" /\ pc' = "scan")
    BY <2>1 DEF CycleLeave, FireInv, Fired
  <2> QED  BY <2>1, <2>2, <1>a, <1>b
<1>6. CASE ScanDone \/ SweepDone \/ ResumeAcquire
  BY <1>6 DEF ScanDone, SweepDone, ResumeAcquire, LoopInv, dbVars, sweepVars
<1>7. CASE SweepExpire \/ SweepList
  BY <1>7 DEF SweepExpire, SweepList, LoopInv, sweepVars, dbVars
<1>8. ASSUME NEW s \in queue, ResumeNext(s)
      PROVE  LoopInv'
  <2>1. s # None
    BY ConstantsAssumption DEF TypeOK, Snapshots
  <2> QED  BY <1>8, <2>1 DEF ResumeNext, LoopInv
<1>9. CASE ResumeSubmit
  <2>1. cur # None /\ cur.id \in Intents /\ cur' = cur
    BY <1>9, <1>a DEF ResumeSubmit, LoopInv
  <2> QED  BY <1>9, <1>a, <2>1 DEF ResumeSubmit, BrokerAccepts, BrokerRefuses,
                                   AnswerLost, LoopInv
<1>10. CASE ResumePersist
  <2>1. cur # None /\ cur.id \in Intents /\ cur' = cur
    BY <1>10, <1>a DEF ResumePersist, LoopInv, sweepVars
  <2> QED  BY <1>10, <1>a, <2>1 DEF ResumePersist, LoopInv, sweepVars
<1>11. CASE ResumeMark \/ ResumeFail \/ Crash
  BY <1>11 DEF ResumeMark, ResumeFail, NextSnapshot, Crash, LoopInv
<1> QED
  <2>1. CASE UNCHANGED vars
    BY <2>1, <1>1 DEF vars, dbVars, sweepVars
  <2>2. CASE ClockTick \/ Restart
    BY <2>2, <1>1 DEF ClockTick, Restart, dbVars, sweepVars
  <2>3. ASSUME NEW i \in Intents, NEW d \in {"approved", "rejected"}, Decide(i, d)
        PROVE  LoopInv'
    BY <2>3, <1>1 DEF Decide, sweepVars
  <2>6. CASE ManualExpire
    BY <2>6, <1>1 DEF ManualExpire, sweepVars
  <2>4. ASSUME NEW t \in Tasks, NEW st \in TaskStatuses, SetTaskStatus(t, st)
        PROVE  LoopInv'
    BY <2>4, <1>1 DEF SetTaskStatus, dbVars, sweepVars
  <2>5. ASSUME NEW t \in Tasks, CycleStep(t)
        PROVE  LoopInv'
    BY <2>5, <1>1, <1>3, <1>4, <1>5 DEF CycleStep, CycleBegin, CycleRequest,
                                        dbVars, sweepVars
  <2> QED  BY <1>2, <1>6, <1>7, <1>8, <1>9, <1>10, <1>11, <2>1, <2>2, <2>3,
              <2>4, <2>5, <2>6 DEF Next, SweepStep

\* Every step keeps at most one cycle fired by a trigger, and the loop waits for it.
LEMMA NextFireInv ==
  ASSUME TypeOK, FireInv, [Next]_vars
  PROVE  FireInv'
<1>a. cycle \in [Tasks -> CycleStates]
  BY DEF TypeOK
<1> USE <1>a DEF CycleStates, FireInv, Fired
<1>1. CASE UNCHANGED <<pc, cycle, waiting>>
  BY <1>1
<1>2. ASSUME NEW t \in Tasks, NEW by \in {"tick", "trigger"}, CycleAdmit(t, by)
      PROVE  FireInv'
  <2>1. CASE by = "tick"
    BY <1>2, <2>1 DEF CycleAdmit
  <2>2. CASE by = "trigger"
    <3>1. pc' = "fire" /\ \A u \in Tasks : ~Fired(u)
      BY <1>2, <2>2 DEF CycleAdmit
    <3> QED  BY <1>2, <2>2, <3>1 DEF CycleAdmit
  <2> QED  BY <2>1, <2>2
<1>3. ASSUME NEW t \in Tasks, CycleStep(t)
      PROVE  FireInv'
  <2>1. CASE \E i \in Intents : CycleRequest(t, i)
    BY <2>1 DEF CycleRequest, CycleTo
  <2>2. CASE CycleSubmit(t) \/ CyclePersist(t)
    BY <2>2 DEF CycleSubmit, CyclePersist, CycleTo
  <2>3. CASE CycleEnd(t) \/ CycleRaise(t)
    <3>1. /\ cycle' = [cycle EXCEPT ![t] = IdleCycle] /\ waiting' = waiting
          /\ pc' = IF cycle[t].by = "trigger" THEN "scan" ELSE pc
      BY <2>3 DEF CycleEnd, CycleRaise, CycleLeave
    <3>2. /\ cycle'[t].by = "none"
          /\ \A u \in Tasks : u # t => cycle'[u] = cycle[u]
      BY <3>1 DEF IdleCycle
    <3> QED  BY <3>1, <3>2
  <2>4. ASSUME NEW by \in {"tick", "trigger"}, CycleBegin(t, by)
        PROVE  FireInv'
    <3>1. /\ cycle'[t].by = by /\ pc' = pc
          /\ \A u \in Tasks : u # t => cycle'[u] = cycle[u]
          /\ waiting' = waiting \ {<<t, by>>} /\ <<t, by>> \in waiting
      BY <2>4 DEF CycleBegin
    <3> QED  BY <3>1
  <2> QED  BY <1>3, <2>1, <2>2, <2>3, <2>4 DEF CycleStep
<1>4. CASE SweepStep
  <2>1. pc # "fire" /\ cycle' = cycle /\ waiting' = waiting
    BY <1>4 DEF SweepStep, ScanDone, SweepExpire, SweepList, SweepDone,
                ResumeNext, ResumeAcquire, ResumeSubmit, ResumePersist,
                ResumeMark, ResumeFail, SweepUnchanged, cycleVars
  <2> QED  BY <2>1
<1>5. CASE Crash
  BY <1>5 DEF Crash, IdleCycle
<1> QED
  BY <1>1, <1>2, <1>3, <1>4, <1>5
     DEF Next, ClockTick, Decide, ManualExpire, SetTaskStatus, Restart, vars,
         cycleVars

\* A cycle, or a resumed order, is in a worker only with the task's cycle lock.
LEMMA NextLockInv ==
  ASSUME TypeOK, LockInv, LoopInv, FireInv, [Next]_vars
  PROVE  LockInv'
<1>a. /\ cycle \in [Tasks -> CycleStates]
      /\ lock \in [Tasks -> {"free", "cycle", "resume"}]
      /\ cur # None => TaskOf[cur.id] \in Tasks
      /\ \A s \in queue : TaskOf[s.id] \in Tasks
  BY ConstantsAssumption DEF TypeOK, Snapshots
<1> USE <1>a DEF CycleStates, LockInv
<1>1. CASE UNCHANGED <<pc, cycle, lock, cur>>
  BY <1>1
<1>2. ASSUME NEW t \in Tasks, NEW by \in {"tick", "trigger"}, CycleAdmit(t, by)
      PROVE  LockInv'
  BY <1>2 DEF CycleAdmit, sweepVars
<1>3. ASSUME NEW t \in Tasks, CycleStep(t)
      PROVE  LockInv'
  <2>1. CASE \E i \in Intents : CycleRequest(t, i)
    BY <2>1 DEF CycleRequest, CycleTo, sweepVars
  <2>2. CASE CycleSubmit(t) \/ CyclePersist(t)
    BY <2>2 DEF CycleSubmit, CyclePersist, CycleTo, sweepVars
  <2>3. CASE CycleEnd(t) \/ CycleRaise(t)
    <3>1. lock[t] = "cycle" /\ CycleLeave(t) /\ cur' = cur
      BY <2>3 DEF CycleEnd, CycleRaise, sweepVars
    <3>2. \A u \in Tasks : cycle'[u].at # "idle" => lock'[u] = "cycle"
      BY <3>1 DEF CycleLeave, IdleCycle
    <3>3. pc' \in {"submit", "persist"} => pc' = pc /\ cur # None
      BY <3>1 DEF CycleLeave, LoopInv
    <3>4. pc' \in {"submit", "persist"} => lock'[TaskOf[cur.id]] = "resume"
      BY <3>1, <3>3 DEF CycleLeave
    <3> QED  BY <3>1, <3>2, <3>4
  <2>4. ASSUME NEW by \in {"tick", "trigger"}, CycleBegin(t, by)
        PROVE  LockInv'
    BY <2>4 DEF CycleBegin, sweepVars
  <2> QED  BY <1>3, <2>1, <2>2, <2>3, <2>4 DEF CycleStep
<1>4. CASE SweepStep
  <2>1. cycle' = cycle
    BY <1>4 DEF SweepStep, ScanDone, SweepExpire, SweepList, SweepDone,
                ResumeNext, ResumeAcquire, ResumeSubmit, ResumePersist,
                ResumeMark, ResumeFail, SweepUnchanged, cycleVars
  <2>2. CASE ScanDone \/ SweepExpire \/ SweepList \/ SweepDone
    BY <2>1, <2>2 DEF ScanDone, SweepExpire, SweepList, SweepDone
  <2>3. ASSUME NEW s \in queue, ResumeNext(s)
        PROVE  LockInv'
    BY <2>1, <2>3 DEF ResumeNext
  <2>7. CASE ResumeAcquire
    BY <2>1, <2>7 DEF ResumeAcquire, LoopInv, sweepVars
  <2>4. CASE ResumeSubmit
    BY <2>1, <2>4 DEF ResumeSubmit, Unlock, LoopInv
  <2>5. CASE ResumePersist
    BY <2>1, <2>5 DEF ResumePersist, Unlock, LoopInv
  <2>6. CASE ResumeMark \/ ResumeFail
    BY <2>1, <2>6 DEF ResumeMark, ResumeFail, NextSnapshot
  <2> QED  BY <1>4, <2>2, <2>3, <2>4, <2>5, <2>6, <2>7 DEF SweepStep
<1>5. CASE Crash
  BY <1>5 DEF Crash, IdleCycle
<1> QED
  BY <1>1, <1>2, <1>3, <1>4, <1>5
     DEF Next, ClockTick, Decide, ManualExpire, SetTaskStatus, Restart, vars,
         cycleVars, sweepVars

-----------------------------------------------------------------------------
(* The account of each order.                                              *)

\* An intent in the hands of a cycle stays one that the gate let through and that
\* only this cycle submits.
LEMMA NextCycleInv ==
  ASSUME TypeOK, CycleInv, SnapshotInv, LoopInv, IntentInv, [Next]_vars
  PROVE  CycleInv'
<1>a. /\ row \in [Intents -> Row] /\ cycle \in [Tasks -> CycleStates]
      /\ sent \in [Intents -> Nat]
      /\ cur # None => cur.id \in Intents
  BY DEF TypeOK, Snapshots
\* It is enough that no cycle goes on to an order, and that the orders the gate
\* let through stay as they are.
<1>b. ASSUME \A t \in Tasks : cycle'[t] = cycle[t]
                               \/ cycle'[t].at \in {"idle", "decide"},
             \A i \in Intents : row[i].status = "auto" =>
               row'[i].status = "auto" /\ sent'[i] = sent[i]
      PROVE  CycleInv'
  BY <1>b DEF CycleInv
<1>1. CASE UNCHANGED <<cycle, row, sent>>
  BY <1>1, <1>b
<1>2. ASSUME NEW i \in Intents, NEW d \in {"approved", "rejected"}, Decide(i, d)
      PROVE  CycleInv'
  BY <1>2, <1>a, <1>b DEF Decide, Resolve, cycleVars
<1>3. ASSUME NEW t \in Tasks, NEW by \in {"tick", "trigger"}, CycleBegin(t, by)
      PROVE  CycleInv'
  BY <1>3, <1>a, <1>b DEF CycleBegin, dbVars, CycleStates
<1>4. ASSUME NEW t \in Tasks, NEW i \in Intents, CycleRequest(t, i)
      PROVE  CycleInv'
  <2>1. sent[i] = 0 /\ sent' = sent
    BY <1>4 DEF CycleRequest, IntentInv, AccountInv, UndecidedInv
  <2>2. \A j \in Intents : row[j].status = "auto" => row'[j] = row[j]
    BY <1>4, <1>a DEF CycleRequest, CreatePending
  <2>3. CASE cycle' = cycle
    BY <2>1, <2>2, <2>3, <1>b
  <2>4. CASE CycleTo(t, "submit", i) /\ row' = [row EXCEPT ![i].status = "auto"]
    <3>1. row'[i].status = "auto"
      BY <2>4, <1>a DEF Row
    <3>2. /\ cycle'[t].at = "submit" /\ cycle'[t].intent = i
          /\ \A u \in Tasks : u # t => cycle'[u] = cycle[u]
      BY <2>4, <1>a DEF CycleTo
    <3> QED  BY <1>4, <2>1, <2>2, <3>1, <3>2 DEF CycleInv, CycleRequest
  <2> QED  BY <1>4, <2>3, <2>4 DEF CycleRequest
<1>5. ASSUME NEW t \in Tasks, CycleSubmit(t)
      PROVE  CycleInv'
  <2>1. /\ \A u \in Tasks : u # t => cycle'[u] = cycle[u]
        /\ \/ cycle'[t].at = "decide"
           \/ cycle'[t].at = "persist" /\ cycle'[t].intent = cycle[t].intent
    BY <1>5, <1>a DEF CycleSubmit, CycleTo
  <2>2. \A i \in Intents : TaskOf[i] # t => sent'[i] = sent[i]
    <3>1. cycle[t].intent \in Intents /\ TaskOf[cycle[t].intent] = t
      BY <1>5 DEF CycleSubmit, CycleInv
    <3>2. \/ sent' = sent
          \/ sent' = [sent EXCEPT ![cycle[t].intent] = sent[cycle[t].intent] + 1]
      BY <1>5 DEF CycleSubmit, BrokerAccepts, BrokerRefuses, AnswerLost
    <3> QED  BY <3>1, <3>2, <1>a, CountOne
  <2> QED  BY <1>5, <2>1, <2>2 DEF CycleInv, CycleSubmit, dbVars
<1>6. ASSUME NEW t \in Tasks, CyclePersist(t) \/ CycleEnd(t) \/ CycleRaise(t)
      PROVE  CycleInv'
  BY <1>6, <1>a, <1>b DEF CyclePersist, CycleEnd, CycleRaise, CycleLeave, CycleTo,
                          IdleCycle, dbVars, CycleStates
<1>7. CASE SweepStep
  <2>1. cycle' = cycle
    BY <1>7 DEF SweepStep, ScanDone, SweepExpire, SweepList, SweepDone,
                ResumeNext, ResumeAcquire, ResumeSubmit, ResumePersist,
                ResumeMark, ResumeFail, SweepUnchanged, cycleVars
  <2>2. CASE \/ ScanDone \/ SweepList \/ SweepDone \/ ResumePersist
             \/ ResumeAcquire \/ \E s \in queue : ResumeNext(s)
    BY <2>1, <2>2, <1>1 DEF ScanDone, SweepList, SweepDone, ResumePersist,
                            ResumeAcquire, ResumeNext, dbVars
  <2>3. CASE SweepExpire
    BY <2>1, <2>3, <1>a, <1>b DEF SweepExpire, ExpirePending
  <2>4. CASE ResumeSubmit
    <3>1. cur # None /\ row[cur.id].status # "auto"
      BY <2>4 DEF ResumeSubmit, LoopInv, SnapshotInv, Fresh
    <3>2. \/ sent' = sent
          \/ sent' = [sent EXCEPT ![cur.id] = sent[cur.id] + 1]
      BY <2>4 DEF ResumeSubmit, BrokerAccepts, BrokerRefuses, AnswerLost
    <3>3. row' = row
      BY <2>4 DEF ResumeSubmit, dbVars
    <3>4. \A i \in Intents : row[i].status = "auto" => sent'[i] = sent[i]
      BY <3>1, <3>2, <1>a, CountOne
    <3> QED  BY <2>1, <3>3, <3>4, <1>b
  <2>5. CASE ResumeMark \/ ResumeFail
    <3>1. cur # None /\ row[cur.id].status # "auto" /\ sent' = sent
      BY <2>5 DEF ResumeMark, ResumeFail, LoopInv, SnapshotInv, Fresh
    <3>2. \A i \in Intents : i # cur.id => row'[i] = row[i]
      BY <2>5, <1>a DEF ResumeMark, ResumeFail, LoseMark, MarkDispatched,
                        MarkDispatchFailed, CountAttempt
    <3> QED  BY <2>1, <3>1, <3>2, <1>b
  <2> QED  BY <1>7, <2>2, <2>3, <2>4, <2>5 DEF SweepStep
<1>8. CASE Crash
  BY <1>8, <1>b DEF Crash, IdleCycle, dbVars
<1>9. CASE ManualExpire
  BY <1>9, <1>a, <1>b DEF ManualExpire, ExpirePending, cycleVars
<1> QED
  BY <1>1, <1>2, <1>3, <1>4, <1>5, <1>6, <1>7, <1>8, <1>9
     DEF Next, CycleAdmit, CycleStep, ClockTick, SetTaskStatus, Restart, vars, dbVars,
         cycleVars

\* A step that leaves the row and the counters of an order alone, does not
\* forget a fill, and takes nothing out of the sweep's hands keeps the account.
LEMMA AccountUnchanged ==
  ASSUME NEW i \in Intents, TypeOK, TypeOK', AccountInv(i),
         row'[i] = row[i], sent'[i] = sent[i], fills'[i] >= fills[i],
         misread'[i] = misread[i], unmarked'[i] = unmarked[i],
         InHand(i) => InHand(i)', Accepted(i) => Accepted(i)'
  PROVE  AccountInv(i)'
<1>a. fills[i] \in Nat /\ fills'[i] \in Nat
  BY DEF TypeOK
<1>1. UndecidedInv(i)' /\ LossInv(i)'
  BY DEF AccountInv, UndecidedInv, LossInv
<1>2. BudgetInv(i)'
  BY DEF AccountInv, BudgetInv
<1>3. SettledInv(i)'
  BY <1>a DEF AccountInv, SettledInv
<1> QED  BY <1>1, <1>2, <1>3 DEF AccountInv

\* An order without a history may take any undispatched status, "approved"
\* included: nothing was sent for it.
LEMMA AccountDecided ==
  ASSUME NEW i \in Intents, TypeOK, AccountInv(i),
         row[i].status \notin {"auto", "approved"},
         sent'[i] = sent[i], misread'[i] = misread[i], unmarked'[i] = unmarked[i],
         row'[i].dispatchedAt = "null", row'[i].attempts = 0
  PROVE  AccountInv(i)'
<1>1. /\ sent[i] = 0 /\ misread[i] \in Nat /\ unmarked[i] \in Nat
      /\ MaxAttempts \in Nat \ {0}
  BY ConstantsAssumption DEF AccountInv, UndecidedInv, TypeOK
<1> QED  BY <1>1 DEF AccountInv, UndecidedInv, LossInv, BudgetInv, SettledInv

\* Expiry touches orders without a history only.
LEMMA ExpireAccount ==
  ASSUME NEW i \in Intents, TypeOK, TypeOK', AccountInv(i),
         row' = ExpirePending(row, now),
         UNCHANGED <<sent, fills, misread, unmarked>>,
         InHand(i) => InHand(i)', Accepted(i) => Accepted(i)'
  PROVE  AccountInv(i)'
<1>a. row \in [Intents -> Row] /\ fills[i] \in Nat
  BY DEF TypeOK
<1>1. CASE row'[i] = row[i]
  BY <1>1, <1>a, AccountUnchanged
<1>2. CASE row[i].status = "pending" /\ row'[i] = [row[i] EXCEPT !.status = "expired"]
  <2>1. row[i].dispatchedAt = "null" /\ row[i].attempts = 0
    BY <1>2 DEF AccountInv, UndecidedInv
  <2>2. row'[i].dispatchedAt = "null" /\ row'[i].attempts = 0
    BY <1>a, <1>2, <2>1 DEF Row
  <2> QED  BY <1>2, <2>2, AccountDecided
<1> QED  BY <1>1, <1>2 DEF ExpirePending

\* The cycles and everything that is not the sweep keep the accounts.
LEMMA CycleAccount ==
  ASSUME TypeOK, TypeOK', LoopInv, FireInv, CycleInv, IntentInv, NEW t \in Tasks,
         \/ \E by \in {"tick", "trigger"} : CycleAdmit(t, by)
         \/ CycleStep(t)
  PROVE  IntentInv'
<1>a. /\ row \in [Intents -> Row]
      /\ sent \in [Intents -> Nat] /\ fills \in [Intents -> Nat]
  BY DEF TypeOK
<1> SUFFICES ASSUME NEW i \in Intents  PROVE AccountInv(i)'
  BY DEF IntentInv
<1>b. AccountInv(i) /\ sent[i] \in Nat /\ fills[i] \in Nat
  BY <1>a DEF IntentInv
<1>c. /\ UNCHANGED <<misread, unmarked, cur, verdict>>
      /\ pc' = pc \/ pc \in {"scan", "fire"}
  BY DEF CycleAdmit, CycleBegin, CycleStep, CycleRequest, CycleSubmit,
         CyclePersist, CycleEnd, CycleRaise, CycleLeave, FireInv, Fired,
         sweepVars, lossVars
<1>d. (InHand(i) => InHand(i)') /\ (Accepted(i) => Accepted(i)')
  BY <1>c DEF InHand, Accepted
<1>1. CASE UNCHANGED <<row, sent, fills>>
  BY <1>1, <1>b, <1>c, <1>d, AccountUnchanged
<1>2. ASSUME NEW k \in Intents, CycleRequest(t, k)
      PROVE  AccountInv(i)'
  <2>1. CASE i # k
    <3>1. row'[i] = row[i] /\ sent' = sent /\ fills' = fills
      BY <1>2, <1>a, <2>1 DEF CycleRequest, CreatePending
    <3> QED  BY <3>1, <1>b, <1>c, <1>d, AccountUnchanged
  <2>2. CASE i = k
    <3>1. row[i].status = "none" /\ sent' = sent
      BY <1>2, <2>2 DEF CycleRequest
    <3>2. row[i].dispatchedAt = "null" /\ row[i].attempts = 0
      BY <1>b, <3>1 DEF AccountInv, UndecidedInv
    <3>3. row'[i].dispatchedAt = "null" /\ row'[i].attempts = 0
      BY <1>2, <2>2, <1>a, <3>2 DEF CycleRequest, CreatePending, Row
    <3> QED  BY <3>1, <3>3, <1>b, <1>c, AccountDecided
  <2> QED  BY <2>1, <2>2
<1>3. CASE CycleSubmit(t)
  <2> DEFINE k == cycle[t].intent
  <2>1. /\ k \in Intents /\ row[k].status = "auto" /\ sent[k] = 0
        /\ row' = row /\ fills' = fills
    BY <1>3 DEF CycleSubmit, CycleInv, dbVars
  <2>2. sent' = sent \/ sent' = [sent EXCEPT ![k] = sent[k] + 1]
    BY <1>3 DEF CycleSubmit, BrokerAccepts, BrokerRefuses, AnswerLost
  <2> HIDE DEF k
  <2>3. CASE i # k
    <3>1. sent'[i] = sent[i]
      BY <2>1, <2>2, <2>3, <1>a, CountOne
    <3> QED  BY <2>1, <3>1, <1>b, <1>c, <1>d, AccountUnchanged
  <2>4. CASE i = k
    <3>1. sent'[i] \in {0, 1}
      BY <2>1, <2>2, <2>4, <1>a
    <3>2. /\ misread[i] \in Nat /\ unmarked[i] \in Nat
          /\ MaxAttempts \in Nat \ {0}
      BY ConstantsAssumption DEF TypeOK
    <3> QED  BY <2>1, <2>4, <3>1, <3>2, <1>b, <1>c
             DEF AccountInv, UndecidedInv, LossInv, BudgetInv, SettledInv
  <2> QED  BY <2>3, <2>4
<1>4. CASE CyclePersist(t)
  <2>1. cycle[t].intent \in Intents /\ row' = row /\ sent' = sent
    BY <1>4 DEF CyclePersist, CycleInv
  <2>2. fills'[i] >= fills[i]
    <3>1. fills' = [fills EXCEPT ![cycle[t].intent] = fills[cycle[t].intent] + 1]
      BY <1>4 DEF CyclePersist
    <3> QED  BY <2>1, <3>1, <1>a
  <2> QED  BY <2>1, <2>2, <1>b, <1>c, <1>d, AccountUnchanged
<1> QED
  BY <1>1, <1>2, <1>3, <1>4
     DEF CycleAdmit, CycleBegin, CycleStep, CycleEnd, CycleRaise, dbVars

\* The sweep keeps the accounts: an order it takes for a failure or loses the
\* mark of is entered as such, and an attempt is counted for it.
LEMMA SweepAccount ==
  ASSUME TypeOK, TypeOK', LoopInv, SnapshotInv, IntentInv, SweepStep
  PROVE  IntentInv'
<1>a. /\ row \in [Intents -> Row]
      /\ sent \in [Intents -> Nat] /\ fills \in [Intents -> Nat]
      /\ misread \in [Intents -> Nat] /\ unmarked \in [Intents -> Nat]
      /\ cur # None => cur.id \in Intents
      /\ cur # None => cur.attempts \in Nat
  BY DEF TypeOK, Snapshots
<1> SUFFICES ASSUME NEW i \in Intents  PROVE AccountInv(i)'
  BY DEF IntentInv
<1>b. /\ AccountInv(i)
      /\ sent[i] \in Nat /\ fills[i] \in Nat /\ misread[i] \in Nat
      /\ unmarked[i] \in Nat /\ row[i].attempts \in Nat
      /\ MaxAttempts \in Nat \ {0}
  BY <1>a, ConstantsAssumption DEF IntentInv, Row
<1>1. ASSUME cur = None, UNCHANGED <<row, sent, fills, misread, unmarked>>
      PROVE  AccountInv(i)'
  BY <1>1, <1>b, AccountUnchanged DEF InHand, Accepted
<1>2. CASE \/ ScanDone \/ SweepList \/ SweepDone \/ \E s \in queue : ResumeNext(s)
  BY <1>1, <1>2 DEF ScanDone, SweepList, SweepDone, ResumeNext, LoopInv, dbVars,
                    sweepVars, lossVars
<1>3. CASE SweepExpire
  <2>1. cur = None /\ UNCHANGED <<sent, fills, misread, unmarked>>
    BY <1>3 DEF SweepExpire, LoopInv, lossVars
  <2> QED  BY <1>1, <1>3, <2>1, <1>b, ExpireAccount DEF SweepExpire, InHand, Accepted
\* From here on the loop has an order in hand, approved and unstamped.
<1>4. ASSUME pc \in {"acquire", "submit", "persist", "mark", "fail"}
      PROVE  /\ cur # None /\ cur.id \in Intents
             /\ row[cur.id].status = "approved"
             /\ row[cur.id].dispatchedAt = "null"
             /\ row[cur.id].attempts = cur.attempts
  BY <1>4, <1>a DEF LoopInv, SnapshotInv, Fresh
<1>5. ASSUME cur # None, cur.id # i, row'[i] = row[i], sent'[i] = sent[i],
             fills'[i] >= fills[i], misread'[i] = misread[i],
             unmarked'[i] = unmarked[i]
      PROVE  AccountInv(i)'
  BY <1>5, <1>b, AccountUnchanged DEF InHand, Accepted
<1>6. CASE ResumeSubmit
  <2>1. /\ cur # None /\ cur.id \in Intents /\ cur' = cur
        /\ row[cur.id].status = "approved"
        /\ row[cur.id].dispatchedAt = "null"
        /\ row' = row /\ fills' = fills /\ unmarked' = unmarked
        /\ verdict = "none" /\ pc = "submit"
    BY <1>4, <1>6 DEF ResumeSubmit, LoopInv, dbVars, TypeOK
  <2>2. \/ /\ sent' = [sent EXCEPT ![cur.id] = sent[cur.id] + 1]
           /\ pc' = "persist" /\ verdict' = "accepted" /\ misread' = misread
        \/ /\ sent' = sent /\ misread' = misread
           /\ pc' = "fail" /\ verdict' = "none"
        \/ /\ sent' = [sent EXCEPT ![cur.id] = sent[cur.id] + 1]
           /\ misread' = [misread EXCEPT ![cur.id] = misread[cur.id] + 1]
           /\ pc' = "fail" /\ verdict' = "accepted"
    BY <1>6, <2>1 DEF ResumeSubmit, BrokerAccepts, BrokerRefuses, AnswerLost, Misread
  <2>3. CASE i # cur.id
    <3>1. sent'[i] = sent[i] /\ misread'[i] = misread[i]
      BY <2>1, <2>2, <2>3, <1>a
    <3> QED  BY <2>1, <2>3, <3>1, <1>b, <1>5
  <2>4. CASE i = cur.id
    <3>1. \/ /\ sent'[i] = sent[i] + 1 /\ misread'[i] = misread[i]
             /\ pc' = "persist" /\ verdict' = "accepted"
          \/ /\ sent'[i] = sent[i] /\ misread'[i] = misread[i]
             /\ pc' = "fail" /\ verdict' = "none"
          \/ /\ sent'[i] = sent[i] + 1 /\ misread'[i] = misread[i] + 1
             /\ pc' = "fail" /\ verdict' = "accepted"
      BY <2>1, <2>2, <2>4, <1>a
    <3>2. ~InHand(i) /\ ~Accepted(i)
      BY <2>1 DEF InHand, Accepted
    <3>3. /\ InHand(i)' <=> pc' = "persist"
          /\ Accepted(i)' <=> verdict' = "accepted"
      BY <2>1, <2>4, <3>1 DEF InHand, Accepted
    <3>4. UndecidedInv(i)' /\ LossInv(i)' /\ SettledInv(i)'
      BY <2>1, <2>4, <3>1, <3>2, <3>3, <1>b
         DEF AccountInv, UndecidedInv, LossInv, SettledInv
    <3>5. BudgetInv(i)'
      BY <2>1, <2>4, <3>1, <3>2, <3>3, <1>b DEF AccountInv, BudgetInv
    <3> QED  BY <3>4, <3>5 DEF AccountInv
  <2> QED  BY <2>3, <2>4
<1>7. CASE ResumePersist
  <2>1. /\ cur # None /\ cur.id \in Intents /\ cur' = cur
        /\ row[cur.id].status = "approved"
        /\ row[cur.id].dispatchedAt = "null"
        /\ row' = row /\ sent' = sent /\ unmarked' = unmarked
        /\ verdict = "accepted" /\ verdict' = verdict /\ pc = "persist"
    BY <1>4, <1>7 DEF ResumePersist, LoopInv, sweepVars
  <2>2. \/ /\ fills' = [fills EXCEPT ![cur.id] = fills[cur.id] + 1]
           /\ misread' = misread /\ pc' = "mark"
        \/ /\ fills' = fills /\ pc' = "fail"
           /\ misread' = [misread EXCEPT ![cur.id] = misread[cur.id] + 1]
    BY <1>7 DEF ResumePersist, Misread
  <2>3. CASE i # cur.id
    <3>1. fills'[i] = fills[i] /\ misread'[i] = misread[i]
      BY <2>1, <2>2, <2>3, <1>a
    <3> QED  BY <2>1, <2>3, <3>1, <1>b, <1>5
  <2>4. CASE i = cur.id
    <3>1. \/ fills'[i] = fills[i] + 1 /\ misread'[i] = misread[i] /\ pc' = "mark"
          \/ fills'[i] = fills[i] /\ misread'[i] = misread[i] + 1 /\ pc' = "fail"
      BY <2>1, <2>2, <2>4, <1>a
    <3>2. (InHand(i)' <=> pc' = "mark") /\ Accepted(i) /\ Accepted(i)'
      BY <2>1, <2>4, <3>1 DEF InHand, Accepted
    <3>3. UndecidedInv(i)' /\ LossInv(i)' /\ SettledInv(i)'
      BY <2>1, <2>4, <3>1, <3>2, <1>b
         DEF AccountInv, UndecidedInv, LossInv, SettledInv
    <3>4. BudgetInv(i)'
      BY <2>1, <3>2, <1>b DEF AccountInv, BudgetInv
    <3> QED  BY <3>3, <3>4 DEF AccountInv
  <2> QED  BY <2>3, <2>4
<1>8. CASE ResumeMark
  <2>1. /\ cur # None /\ cur.id \in Intents /\ cur' = None
        /\ row[cur.id].status = "approved"
        /\ row[cur.id].dispatchedAt = "null"
        /\ sent' = sent /\ fills' = fills /\ misread' = misread
        /\ sent[cur.id] > 0 /\ fills[cur.id] > 0
    BY <1>4, <1>8 DEF ResumeMark, NextSnapshot, LoopInv
  <2>2. \/ row' = MarkDispatched(row, cur.id) /\ unmarked' = unmarked
        \/ /\ row' = row
           /\ unmarked' = [unmarked EXCEPT ![cur.id] = unmarked[cur.id] + 1]
    BY <1>8 DEF ResumeMark, LoseMark
  <2>3. CASE i # cur.id
    <3>1. row'[i] = row[i] /\ unmarked'[i] = unmarked[i]
      BY <2>1, <2>2, <2>3, <1>a DEF MarkDispatched
    <3> QED  BY <2>1, <2>3, <3>1, <1>b, <1>5
  <2>4. CASE i = cur.id
    <3>1. \/ /\ row'[i].status = "approved" /\ row'[i].dispatchedAt = "stamped"
             /\ row'[i].attempts = row[i].attempts /\ unmarked'[i] = unmarked[i]
          \/ row'[i] = row[i] /\ unmarked'[i] = unmarked[i] + 1
      BY <2>1, <2>2, <2>4, <1>a DEF MarkDispatched, Row
    <3>2. UndecidedInv(i)' /\ LossInv(i)' /\ SettledInv(i)'
      BY <2>1, <2>4, <3>1, <1>b DEF AccountInv, UndecidedInv, LossInv, SettledInv
    <3>3. BudgetInv(i)'
      BY <2>1, <2>4, <3>1, <1>b DEF AccountInv, BudgetInv
    <3> QED  BY <3>2, <3>3 DEF AccountInv
  <2> QED  BY <2>3, <2>4
<1>9. CASE ResumeFail
  <2>1. /\ cur # None /\ cur.id \in Intents /\ cur' = None
        /\ row[cur.id].status = "approved"
        /\ row[cur.id].dispatchedAt = "null"
        /\ row[cur.id].attempts = cur.attempts
        /\ sent' = sent /\ fills' = fills /\ misread' = misread /\ pc = "fail"
    BY <1>4, <1>9 DEF ResumeFail, NextSnapshot
  <2>2. \/ /\ row' = MarkDispatchFailed(row, cur.id, Outcome(cur))
           /\ unmarked' = unmarked
        \/ /\ row' = row
           /\ unmarked' = [unmarked EXCEPT ![cur.id] = unmarked[cur.id] + 1]
    BY <1>9 DEF ResumeFail, LoseMark
  <2>3. CASE i # cur.id
    <3>1. row'[i] = row[i]
      BY <2>1, <2>2, <2>3, <1>a DEF MarkDispatchFailed, MarkDispatched, CountAttempt
    <3>2. unmarked'[i] = unmarked[i]
      BY <2>1, <2>2, <2>3, <1>a
    <3> QED  BY <2>1, <2>3, <3>1, <3>2, <1>b, <1>5
  <2>4. CASE i = cur.id
    <3>1. \/ /\ row'[i].status = "approved" /\ unmarked'[i] = unmarked[i]
             /\ row'[i].attempts = row[i].attempts + 1
             /\ row'[i].dispatchedAt = IF row[i].attempts + 1 >= MaxAttempts
                                       THEN "stamped" ELSE "null"
          \/ row'[i] = row[i] /\ unmarked'[i] = unmarked[i] + 1
      <4>1. CASE row' = MarkDispatchFailed(row, cur.id, Outcome(cur))
                 /\ unmarked' = unmarked
        <5>1. /\ CountAttempt(row, i) \in [Intents -> Row]
              /\ CountAttempt(row, i)[i].attempts = row[i].attempts + 1
              /\ CountAttempt(row, i)[i].status = "approved"
              /\ CountAttempt(row, i)[i].dispatchedAt = "null"
          BY <2>1, <2>4, <1>a DEF CountAttempt, Row
        <5>2. /\ MarkDispatched(CountAttempt(row, i), i)[i].attempts
                   = row[i].attempts + 1
              /\ MarkDispatched(CountAttempt(row, i), i)[i].status = "approved"
              /\ MarkDispatched(CountAttempt(row, i), i)[i].dispatchedAt = "stamped"
          BY <5>1 DEF MarkDispatched, Row
        <5> QED  BY <2>1, <2>4, <4>1, <5>1, <5>2 DEF MarkDispatchFailed, Outcome
      <4>2. CASE row' = row
                 /\ unmarked' = [unmarked EXCEPT ![cur.id] = unmarked[cur.id] + 1]
        BY <2>1, <2>4, <4>2, <1>a
      <4> QED  BY <2>2, <4>1, <4>2
    <3>2. ~InHand(i)
      BY <2>1 DEF InHand
    <3>3. UndecidedInv(i)' /\ LossInv(i)'
      BY <2>1, <2>4, <3>1, <3>2, <1>b DEF AccountInv, UndecidedInv, LossInv
    <3>4. BudgetInv(i)' /\ SettledInv(i)'
      BY <2>1, <2>4, <3>1, <1>b DEF AccountInv, BudgetInv, SettledInv
    <3> QED  BY <3>3, <3>4 DEF AccountInv
  <2> QED  BY <2>3, <2>4
<1>10. CASE ResumeAcquire
  <2>1. /\ UNCHANGED <<row, sent, fills, misread, unmarked, cur, verdict>>
        /\ pc = "acquire"
    BY <1>10 DEF ResumeAcquire, dbVars, sweepVars, lossVars
  <2> QED  BY <2>1, <1>b, AccountUnchanged DEF InHand, Accepted
<1> QED  BY <1>2, <1>3, <1>6, <1>7, <1>8, <1>9, <1>10 DEF SweepStep

\* Every step keeps the account of every order, whoever takes it.
LEMMA NextIntentInv ==
  ASSUME TypeOK, TypeOK', SnapshotInv, LoopInv, FireInv, CycleInv, IntentInv,
         [Next]_vars
  PROVE  IntentInv'
<1>a. /\ row \in [Intents -> Row] /\ unmarked \in [Intents -> Nat]
      /\ sent \in [Intents -> Nat] /\ misread \in [Intents -> Nat]
      /\ fills \in [Intents -> Nat]
      /\ cur # None => cur.id \in Intents
  BY DEF TypeOK, Snapshots
<1>1. ASSUME UNCHANGED <<row, sent, fills, misread, unmarked, cur, verdict, pc>>
      PROVE  IntentInv'
  BY <1>1 DEF IntentInv, AccountInv, UndecidedInv, LossInv, BudgetInv, SettledInv,
              InHand, Accepted
<1>2. ASSUME NEW k \in Intents, NEW d \in {"approved", "rejected"}, Decide(k, d)
      PROVE  IntentInv'
  <2> SUFFICES ASSUME NEW i \in Intents  PROVE AccountInv(i)'
    BY DEF IntentInv
  <2>1. AccountInv(i) /\ fills[i] \in Nat
    BY <1>a DEF IntentInv
  <2>2. UNCHANGED <<fills, sent, misread, unmarked, cur, verdict, pc>>
    BY <1>2 DEF Decide, sweepVars, lossVars
  <2>3. CASE row'[i] = row[i]
    BY <2>1, <2>2, <2>3, AccountUnchanged DEF InHand, Accepted
  <2>4. CASE row[i].status = "pending" /\ row'[i] = [row[i] EXCEPT !.status = d]
    <3>1. row[i].dispatchedAt = "null" /\ row[i].attempts = 0
      BY <2>1, <2>4 DEF AccountInv, UndecidedInv
    <3>2. row'[i].dispatchedAt = "null" /\ row'[i].attempts = 0
      BY <1>a, <2>4, <3>1 DEF Row
    <3> QED  BY <2>1, <2>2, <2>4, <3>2, AccountDecided
  <2> QED  BY <1>2, <1>a, <2>3, <2>4 DEF Decide, Resolve
<1>3. CASE Crash
  <2> SUFFICES ASSUME NEW i \in Intents  PROVE AccountInv(i)'
    BY DEF IntentInv
  <2>1. /\ AccountInv(i)
        /\ sent[i] \in Nat /\ misread[i] \in Nat /\ unmarked[i] \in Nat
        /\ row[i].attempts \in Nat /\ fills[i] \in Nat
        /\ MaxAttempts \in Nat \ {0}
    BY <1>a, ConstantsAssumption DEF IntentInv, Row
  <2>2. UNCHANGED <<row, fills, sent, misread>> /\ cur' = None
    BY <1>3 DEF Crash, dbVars
  <2>3. CASE Accepted(i)
    <3>1. unmarked'[i] = unmarked[i] + 1
      BY <1>3, <1>a, <2>3 DEF Crash, Accepted
    <3>2. UndecidedInv(i)' /\ LossInv(i)' /\ SettledInv(i)'
      BY <2>1, <2>2, <3>1 DEF AccountInv, UndecidedInv, LossInv, SettledInv
    <3>3. BudgetInv(i)'
      BY <2>1, <2>2, <3>1 DEF AccountInv, BudgetInv
    <3> QED  BY <3>2, <3>3 DEF AccountInv
  <2>4. CASE ~Accepted(i)
    <3>1. unmarked'[i] = unmarked[i]
      <4>1. CASE verdict = "accepted"
        <5>1. cur # None /\ cur.id # i
          BY <2>4, <4>1 DEF Accepted, LoopInv
        <5> QED  BY <1>3, <1>a, <4>1, <5>1 DEF Crash
      <4>2. CASE verdict # "accepted"
        BY <1>3, <4>2 DEF Crash
      <4> QED  BY <4>1, <4>2
    <3>2. ~InHand(i)
      BY <2>4 DEF InHand, Accepted, LoopInv
    <3> QED  BY <2>1, <2>2, <2>4, <3>1, <3>2, AccountUnchanged
  <2> QED  BY <2>3, <2>4
<1> QED
  <2>1. CASE UNCHANGED vars \/ ClockTick \/ Restart
    BY <2>1, <1>1 DEF vars, ClockTick, Restart, dbVars, sweepVars, lossVars
  <2>2. ASSUME NEW t \in Tasks, NEW st \in TaskStatuses, SetTaskStatus(t, st)
        PROVE  IntentInv'
    BY <2>2, <1>1 DEF SetTaskStatus, dbVars, sweepVars, lossVars
  <2>3. CASE ManualExpire
    <3> SUFFICES ASSUME NEW i \in Intents  PROVE AccountInv(i)'
      BY DEF IntentInv
    <3>1. AccountInv(i)
      BY DEF IntentInv
    <3>2. /\ row' = ExpirePending(row, now)
          /\ UNCHANGED <<sent, fills, misread, unmarked, cur, verdict, pc>>
      BY <2>3 DEF ManualExpire, sweepVars, lossVars
    <3> QED  BY <3>1, <3>2, ExpireAccount DEF InHand, Accepted
  <2> QED  BY <1>2, <1>3, <2>1, <2>2, <2>3, CycleAccount, SweepAccount DEF Next

-----------------------------------------------------------------------------
(* The theorems.                                                           *)

\* The strengthened invariant holds before the first step.
LEMMA InitIInv == Init => IInv
<1> SUFFICES ASSUME Init  PROVE IInv
  OBVIOUS
<1>1. TypeOK
  BY InitType
<1>2. SnapshotInv /\ LoopInv
  BY DEF Init, SnapshotInv, LoopInv
<1>3. FireInv /\ LockInv /\ CycleInv
  <2>1. /\ waiting = {} /\ pc = "scan"
        /\ \A t \in Tasks : cycle[t].at = "idle" /\ cycle[t].by = "none"
    BY DEF Init, IdleCycle
  <2> QED  BY <2>1 DEF FireInv, Fired, LockInv, CycleInv
<1>4. IntentInv
  <2> SUFFICES ASSUME NEW i \in Intents  PROVE AccountInv(i)
    BY DEF IntentInv
  <2>1. /\ row[i] = NoRow /\ sent[i] = 0 /\ misread[i] = 0 /\ unmarked[i] = 0
        /\ MaxAttempts \in Nat \ {0}
    BY ConstantsAssumption DEF Init
  <2> QED  BY <2>1 DEF AccountInv, UndecidedInv, LossInv, BudgetInv, SettledInv, NoRow
<1> QED  BY <1>1, <1>2, <1>3, <1>4 DEF IInv

\* The strengthened invariant holds always: for any tasks, intents and budget,
\* any number of cycles and faults, and any interleaving.
THEOREM Inductive == Spec => []IInv
<1>1. Init => IInv
  BY InitIInv
<1>2. IInv /\ [Next]_vars => IInv'
  BY NextType, NextSnapshotInv, NextLoopInv, NextFireInv, NextLockInv,
     NextCycleInv, NextIntentInv DEF IInv
<1> QED  BY <1>1, <1>2, PTL DEF Spec

\* The types of the state, the statuses that reach the approvals table among
\* them.
THEOREM TypeCorrect == Spec => []TypeOK
<1>1. IInv => TypeOK
  BY DEF IInv
<1> QED  BY <1>1, Inductive, PTL

\* The resume sweep sends an approved order twice only after a lost answer, a
\* fill that was not written or a stamp that was not written.
THEOREM SendsAreExplained == Spec => []SentOncePerLoss
<1>1. IInv => SentOncePerLoss
  BY DEF IInv, IntentInv, AccountInv, LossInv, SentOncePerLoss
<1> QED  BY <1>1, Inductive, PTL

\* The budget of attempts bounds how often the broker gets one order.
THEOREM SendsAreBounded == Spec => []BudgetBoundsSends
<1>1. IInv => BudgetBoundsSends
  BY DEF IInv, IntentInv, AccountInv, BudgetInv, BudgetBoundsSends
<1> QED  BY <1>1, Inductive, PTL

\* An approved order leaves the sweep with a fill, or with its budget spent.
THEOREM NothingIsDropped == Spec => []SettledIsAccounted
<1>1. IInv => SettledIsAccounted
  BY DEF IInv, IntentInv, AccountInv, SettledInv, SettledIsAccounted
<1> QED  BY <1>1, Inductive, PTL

\* The cycle lock keeps a resumed order out of a worker that runs a cycle.
THEOREM WorkerIsExclusive == Spec => []OneDispatcherPerTask
<1>1. IInv => OneDispatcherPerTask
  <2> SUFFICES ASSUME IInv, pc \in {"submit", "persist"}
               PROVE  cycle[TaskOf[cur.id]].at = "idle"
    BY DEF OneDispatcherPerTask
  <2>1. cur # None
    BY DEF IInv, LoopInv
  <2>2. TaskOf[cur.id] \in Tasks
    BY <2>1, ConstantsAssumption DEF IInv, TypeOK, Snapshots
  <2> QED  BY <2>2 DEF IInv, LockInv
<1> QED  BY <1>1, Inductive, PTL

-----------------------------------------------------------------------------
(* ApprovalDispatch implements OrderPromise.                               *)

\* Order i takes the promised step P when it is the only one whose stage moves.
LEMMA PromisedMove ==
  ASSUME NEW i \in Intents, sent' = sent,
         \A j \in Intents : j # i => row'[j] = row[j],
         \/ Stage(i) = "new" /\ Stage(i)' \in {"auto", "held"}
         \/ Stage(i) = "held" /\ Stage(i)' \in {"approved", "refused"}
         \/ Stage(i) = "approved" /\ Stage(i)' = "settled"
         \/ Stage(i)' = Stage(i)
  PROVE  [Promise!Next]_(Promise!vars)
<1> DEFINE order == [j \in Intents |-> Stage(j)]
<1>1. \A j \in Intents : j # i => Stage(j)' = Stage(j)
  BY DEF Stage
<1>2. order' = [order EXCEPT ![i] = Stage(i)']
  BY <1>1
<1>3. CASE Stage(i)' = Stage(i)
  BY <1>1, <1>3 DEF Promise!vars
<1>4. CASE Stage(i) = "new" /\ Stage(i)' \in {"auto", "held"}
  BY <1>2, <1>4 DEF Promise!Next, Promise!Propose, Promise!Move
<1>5. CASE Stage(i) = "held" /\ Stage(i)' = "approved"
  BY <1>2, <1>5 DEF Promise!Next, Promise!Approve, Promise!Move
<1>6. CASE Stage(i) = "approved" /\ Stage(i)' = "settled"
  BY <1>2, <1>6 DEF Promise!Next, Promise!Settle, Promise!Move
<1>7. CASE Stage(i) = "held" /\ Stage(i)' = "refused"
  <2>1. /\ \A j \in {i} : order[j] = "held"
        /\ order' = [j \in Intents |-> IF j \in {i} THEN "refused" ELSE order[j]]
    BY <1>1, <1>7
  <2> QED  BY <2>1 DEF Promise!Next, Promise!RefuseMany
<1> QED  BY <1>3, <1>4, <1>5, <1>6, <1>7

\* The broker's acceptance of order i is a promised Send.
LEMMA PromisedSend ==
  ASSUME NEW i \in Intents, row' = row,
         sent' = [sent EXCEPT ![i] = sent[i] + 1],
         Stage(i) = "approved" \/ (Stage(i) = "auto" /\ sent[i] = 0)
  PROVE  [Promise!Next]_(Promise!vars)
<1>1. [j \in Intents |-> Stage(j)]' = [j \in Intents |-> Stage(j)]
  BY DEF Stage
<1> QED  BY <1>1 DEF Promise!Next, Promise!Send

\* An expiry sweep refuses what it expires, all at once.
LEMMA PromisedExpire ==
  ASSUME row \in [Intents -> Row], row' = ExpirePending(row, now), sent' = sent
  PROVE  [Promise!Next]_(Promise!vars)
<1> DEFINE S == {i \in Intents : row[i].status = "pending" /\ row[i].expiresAt <= now}
<1>1. \A i \in S : Stage(i) = "held" /\ Stage(i)' = "refused"
  <2> SUFFICES ASSUME NEW i \in S
               PROVE  Stage(i) = "held" /\ Stage(i)' = "refused"
    OBVIOUS
  <2>1. row'[i].status = "expired"
    BY DEF ExpirePending, Row
  <2> QED  BY <2>1 DEF Stage
<1>2. \A i \in Intents : i \notin S => Stage(i)' = Stage(i)
  BY DEF ExpirePending, Stage
<1>3. S \in SUBSET Intents
  OBVIOUS
<1> HIDE DEF S
<1> QED  BY <1>1, <1>2, <1>3 DEF Promise!Next, Promise!RefuseMany

\* A step that leaves the table and the broker alone is no step of the promise.
LEMMA PromisedStutter ==
  ASSUME row' = row, sent' = sent
  PROVE  [Promise!Next]_(Promise!vars)
BY DEF Promise!vars, Stage

\* Every step of the detailed system is a step of the promise, or none.
LEMMA NextPromised ==
  ASSUME IInv, [Next]_vars
  PROVE  [Promise!Next]_(Promise!vars)
<1>a. /\ row \in [Intents -> Row] /\ sent \in [Intents -> Nat]
      /\ cur # None => cur.id \in Intents
      /\ \A i \in Intents : UndecidedInv(i)
      /\ SnapshotInv /\ LoopInv /\ CycleInv
  BY DEF IInv, TypeOK, Snapshots, IntentInv, AccountInv
<1>1. ASSUME NEW i \in Intents, NEW d \in {"approved", "rejected"}, Decide(i, d)
      PROVE  [Promise!Next]_(Promise!vars)
  <2>1. sent' = sent
    BY <1>1 DEF Decide
  <2>2. CASE row' = row
    BY <2>1, <2>2, PromisedStutter
  <2>3. CASE row[i].status = "pending" /\ row' = [row EXCEPT ![i].status = d]
    <3>1. row'[i].status = d /\ row'[i].dispatchedAt = "null"
      BY <1>a, <2>3 DEF UndecidedInv, Row
    <3>2. \A j \in Intents : j # i => row'[j] = row[j]
      BY <1>a, <2>3
    <3>3. Stage(i) = "held" /\ Stage(i)' \in {"approved", "refused"}
      BY <2>3, <3>1 DEF Stage
    <3> QED  BY <2>1, <3>2, <3>3, PromisedMove
  <2> QED  BY <1>1, <2>2, <2>3 DEF Decide, Resolve
<1>2. ASSUME NEW t \in Tasks, CycleStep(t)
      PROVE  [Promise!Next]_(Promise!vars)
  <2>1. ASSUME NEW i \in Intents, CycleRequest(t, i)
        PROVE  [Promise!Next]_(Promise!vars)
    <3>1. sent' = sent /\ row[i].status = "none"
      BY <2>1 DEF CycleRequest
    <3>2. \A j \in Intents : j # i => row'[j] = row[j]
      BY <2>1, <1>a DEF CycleRequest, CreatePending
    <3>3. row'[i].status \in {"auto", "pending"}
      BY <2>1, <1>a DEF CycleRequest, CreatePending, Row
    <3>4. Stage(i) = "new" /\ Stage(i)' \in {"auto", "held"}
      BY <3>1, <3>3 DEF Stage
    <3> QED  BY <3>1, <3>2, <3>4, PromisedMove
  <2>2. CASE CycleSubmit(t)
    <3>1. /\ row' = row /\ cycle[t].intent \in Intents
          /\ row[cycle[t].intent].status = "auto" /\ sent[cycle[t].intent] = 0
      BY <2>2, <1>a DEF CycleSubmit, CycleInv, dbVars
    <3>2. \/ sent' = sent
          \/ sent' = [sent EXCEPT ![cycle[t].intent] = sent[cycle[t].intent] + 1]
      BY <2>2 DEF CycleSubmit, BrokerAccepts, BrokerRefuses, AnswerLost
    <3>3. Stage(cycle[t].intent) = "auto"
      BY <3>1 DEF Stage
    <3> QED  BY <3>1, <3>2, <3>3, PromisedSend, PromisedStutter
  <2> QED  BY <1>2, <2>1, <2>2, PromisedStutter
           DEF CycleStep, CycleBegin, CyclePersist, CycleEnd, CycleRaise, dbVars
<1>4. CASE ManualExpire
  BY <1>4, <1>a, PromisedExpire DEF ManualExpire
<1>3. CASE SweepStep
  <2>1. CASE SweepExpire
    BY <2>1, <1>a, PromisedExpire, PromisedStutter DEF SweepExpire
  <2>2. CASE ResumeSubmit
    <3>1. /\ row' = row /\ cur # None /\ cur.id \in Intents
          /\ row[cur.id].status = "approved" /\ row[cur.id].dispatchedAt = "null"
      BY <2>2, <1>a DEF ResumeSubmit, LoopInv, SnapshotInv, Fresh, dbVars
    <3>2. sent' = sent \/ sent' = [sent EXCEPT ![cur.id] = sent[cur.id] + 1]
      BY <2>2 DEF ResumeSubmit, BrokerAccepts, BrokerRefuses, AnswerLost
    <3>3. Stage(cur.id) = "approved"
      BY <3>1 DEF Stage
    <3> QED  BY <3>1, <3>2, <3>3, PromisedSend, PromisedStutter
  <2>3. CASE ResumeMark \/ ResumeFail
    <3>1. /\ sent' = sent /\ cur # None /\ cur.id \in Intents
          /\ row[cur.id].status = "approved" /\ row[cur.id].dispatchedAt = "null"
      BY <2>3, <1>a DEF ResumeMark, ResumeFail, LoopInv, SnapshotInv, Fresh
    <3>2. \A i \in Intents : i # cur.id => row'[i] = row[i]
      BY <2>3, <1>a DEF ResumeMark, ResumeFail, LoseMark, MarkDispatched,
                        MarkDispatchFailed, CountAttempt
    <3>3. \/ row' = row
          \/ row' = MarkDispatched(row, cur.id)
          \/ row' = CountAttempt(row, cur.id)
          \/ row' = MarkDispatched(CountAttempt(row, cur.id), cur.id)
      BY <2>3 DEF ResumeMark, ResumeFail, LoseMark, MarkDispatchFailed
    <3>4. CountAttempt(row, cur.id) \in [Intents -> Row]
      BY <1>a, <3>1 DEF CountAttempt, Row
    <3>5. row'[cur.id].status = "approved"
      BY <1>a, <3>1, <3>3, <3>4 DEF MarkDispatched, CountAttempt, Row
    <3>6. row'[cur.id].dispatchedAt \in {"null", "stamped"}
      BY <1>a, <3>1, <3>3, <3>4 DEF MarkDispatched, CountAttempt, Row
    <3>7. PICK i \in Intents : i = cur.id
      BY <3>1
    <3>8. Stage(i) = "approved" /\ Stage(i)' \in {"approved", "settled"}
      BY <3>1, <3>5, <3>6, <3>7 DEF Stage
    <3> QED  BY <3>1, <3>2, <3>7, <3>8, PromisedMove
  <2> QED  BY <1>3, <2>1, <2>2, <2>3, PromisedStutter
           DEF SweepStep, ScanDone, SweepList, SweepDone, ResumeNext,
               ResumeAcquire, ResumePersist, dbVars
<1> QED
  BY <1>1, <1>2, <1>3, <1>4, PromisedStutter
     DEF Next, ClockTick, SetTaskStatus, CycleAdmit, Crash, Restart, vars, dbVars

\* The detailed system implements the promise, for every order: held orders
\* reach the broker only between approval and settlement, refused ones never.
THEOREM PromiseKept == Spec => KeepsPromise
<1>1. Init => Promise!Init
  BY DEF Init, NoRow, Stage, Promise!Init
<1>2. IInv /\ [Next]_vars => [Promise!Next]_(Promise!vars)
  BY NextPromised
<1> QED  BY <1>1, <1>2, Inductive, PTL DEF Spec, KeepsPromise, Promise!Spec

=============================================================================
