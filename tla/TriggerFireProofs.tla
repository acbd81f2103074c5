--------------------------- MODULE TriggerFireProofs ---------------------------
(***************************************************************************)
(* Proofs about TriggerFire for any triggers, periods, modes and number of *)
(* calls, updates and failures.                                            *)
(*                                                                         *)
(* The three properties speak of counts and of a mode; what keeps them is  *)
(* spread over the row, the snapshot the scan has read, and the call in    *)
(* flight.  ExtraInv says which of these places may let a trigger fire     *)
(* before its time and that an excuse is left whenever one does: a fire    *)
(* uses it up, and closes the other places, because its record corrects    *)
(* the row and no second snapshot of the trigger exists.  StaleInv does    *)
(* the same for triggers that are switched off, and ModeInv for the mode a *)
(* fire sets and puts back.  ScanInv and QuietInv hold the times those     *)
(* arguments compare, CallInv what a call knows at each place.             *)
(***************************************************************************)
EXTENDS TriggerFire, TLAPS

\* The task is in the hands of the scheduler's fire of g.
Firing(g) == run[Sched].at # "idle" /\ run[Sched].trig.id = g

\* A one-shot's next fire time is its own time, if it has one.
OwnTime(g, next) == Kind[g] = "at" => next \in {None, AtTime[g]}

\* A call in flight.
CallFor(p) ==
  /\ run[p].at # "idle" /\ p # Tick =>
       /\ run[p].trig \in Snapshots
       /\ OwnTime(run[p].trig.id, run[p].trig.next)
  /\ p \in Triggers /\ run[p].at # "idle" => run[p].trig.id = p
  /\ p # Sched => run[p].at # "delete"
  /\ run[p].at \in {"session", "lock"} /\ p # Tick /\ Intent[run[p].trig.id] = "signal_only"
       => run[p].effective = "signal_only"
  /\ run[p].at \in {"idle", "begin", "session", "lock"} => run[p].old = None
  /\ run[p].at = "cycle" <=> lock = p

CallInv == \A p \in Runs : CallFor(p)

\* The scheduler fires what was due, and has one snapshot of each trigger.
ScanInv ==
  /\ scanAt <= now /\ now <= MaxTime
  /\ run[Sched].at # "idle" => run[Sched].trig.next # None /\ run[Sched].trig.next <= now
  /\ \A s, t \in scan : s.id = t.id => s = t
  /\ \A s \in scan : ~Firing(s.id) /\ OwnTime(s.id, s.next)

\* A recurring trigger's next fire is counted from a time that has been.
QuietInv ==
  /\ \A g \in Triggers : OwnTime(g, row[g].next)
  /\ \A g \in Triggers : Kind[g] # "at" => quiet[g] <= NextFire(g, now)
  /\ \A s \in scan : Kind[s.id] # "at" => quiet[s.id] <= NextFire(s.id, scanAt)

\* Who was fired while switched off is not read again until it is switched on.
StaleInv ==
  \A g \in Triggers :
    /\ stale[g] <= 1
    /\ stale[g] # 0 => /\ g \notin Schedulable
                       /\ \A s \in scan : s.id # g
                       /\ run[Sched].at \in {"begin", "session", "lock"} => ~Firing(g)

\* A fire at this time would come before the trigger is owed one.
Early(g, next) == IF Kind[g] = "at" THEN AtTime[g] < quiet[g]
                  ELSE next # None /\ next < quiet[g]

\* The scheduler may fire g early: the row says so and no record is due that
\* will correct it, or it was read so.
RowEarly(g)  == /\ Exists(g) /\ Early(g, row[g].next)
                /\ Kind[g] = "at" => row[g].status = "active"
Corrected(g) == Firing(g) /\ run[Sched].at \in {"cycle", "ran", "none", "raised"}
ScanEarly(g) == \E s \in scan : s.id = g /\ Early(g, s.next)
FireEarly(g) == /\ Firing(g) /\ run[Sched].at \in {"begin", "session", "lock", "none"}
                /\ run[Sched].at = "none" => Kind[g] = "at"
                /\ Early(g, run[Sched].trig.next)
MayFireEarly(g) == (RowEarly(g) /\ ~Corrected(g)) \/ ScanEarly(g) \/ FireEarly(g)

\* For that there is an excuse left.
ExtraInv == \A g \in Triggers : /\ extra[g] <= excuse[g]
                                /\ MayFireEarly(g) => extra[g] < excuse[g]

\* The mode of the worker is the one it was built with, or the override of the
\* cycle in flight, which knows what to put back.
ModeInv ==
  /\ \A p \in Runs \ {Tick} :
       run[p].at = "cycle" /\ Intent[run[p].trig.id] = "signal_only"
         => CycleMode(p) = "signal_only"
  /\ updates = 0 => ~update
  /\ updates = 0 => mode = built \/ (lock # None /\ run[lock].saved # None)
  /\ updates = 0 /\ lock # None => Restored(lock) = built

IInv == TypeOK /\ CallInv /\ ScanInv /\ QuietInv /\ StaleInv /\ ExtraInv /\ ModeInv

-----------------------------------------------------------------------------
(* The constants and the next fire                                         *)

\* What is assumed of the triggers.
LEMMA Constants ==
  ASSUME NEW g \in Triggers
  PROVE  /\ Kind[g] \in {"interval", "cron", "at"} /\ Period[g] \in Nat /\ Period[g] > 0
         /\ AtTime[g] \in Nat /\ Intent[g] \in {"trade", "signal_only"}
BY TriggerAssumption

\* What is assumed of the names.
LEMMA Names ==
  /\ Sched \in Runs /\ Tick \in Runs /\ Sched # Tick /\ Triggers \subseteq Runs
  /\ Sched \notin Triggers /\ Tick \notin Triggers
  /\ None \notin Runs /\ None \notin Nat /\ None \notin RunModes
  /\ None # "signal_only" /\ None # "error" /\ None # "exhausted"
  /\ MaxTime \in Nat
BY TriggerAssumption DEF Runs, RunModes

\* Division by a period rounds down.
LEMMA Rounds ==
  ASSUME NEW a \in Nat, NEW p \in Nat, p > 0
  PROVE  /\ a \div p \in Nat
         /\ (a \div p) * p <= a /\ a < (a \div p + 1) * p
OBVIOUS

\* A later time is in a later period, or the same.
LEMMA RoundsMono ==
  ASSUME NEW a \in Nat, NEW b \in Nat, a <= b, NEW p \in Nat, p > 0
  PROVE  (a \div p + 1) * p <= (b \div p + 1) * p
<1>1. /\ a \div p \in Nat /\ b \div p \in Nat
      /\ (a \div p) * p <= a /\ b < (b \div p + 1) * p
  BY Rounds
<1> DEFINE m == a \div p
           n == b \div p
<1>2. m \in Nat /\ n \in Nat /\ m * p <= a /\ b < (n + 1) * p
  BY <1>1
<1> HIDE DEF m, n
<1>3. m * p < (n + 1) * p
  <2>1. m * p \in Nat /\ (n + 1) * p \in Nat
    BY <1>2
  <2> QED  BY <1>2, <2>1
<1>4. m <= n
  <2> SUFFICES ASSUME n + 1 <= m PROVE FALSE
    BY <1>2
  <2>1. PICK d \in Nat : m = n + 1 + d
    BY <1>2
  <2>2. m * p = (n + 1) * p + d * p
    BY <1>2, <2>1
  <2>3. d * p \in Nat /\ (n + 1) * p \in Nat
    BY <1>2
  <2> QED  BY <1>3, <2>2, <2>3
<1>5. PICK d \in Nat : n = m + d
  BY <1>2, <1>4
<1>6. (n + 1) * p = (m + 1) * p + d * p
  BY <1>2, <1>5
<1>7. (m + 1) * p <= (n + 1) * p
  <2>1. d * p \in Nat /\ (m + 1) * p \in Nat
    BY <1>2
  <2> QED  BY <1>6, <2>1
<1> QED  BY <1>7 DEF m, n

\* The next fire is a time, and counting from later never makes it earlier.
LEMMA NextFireMono ==
  ASSUME NEW g \in Triggers, NEW a \in Nat, NEW b \in Nat, a <= b
  PROVE  /\ NextFire(g, a) \in Nat /\ NextFire(g, b) \in Nat
         /\ NextFire(g, a) <= NextFire(g, b)
<1>0. /\ Kind[g] \in {"interval", "cron", "at"} /\ Period[g] \in Nat /\ Period[g] > 0
      /\ AtTime[g] \in Nat
  BY Constants
<1>1. CASE Kind[g] = "interval"
  <2>1. NextFire(g, a) = a + Period[g] /\ NextFire(g, b) = b + Period[g]
    BY <1>1 DEF NextFire
  <2> QED  BY <1>0, <2>1
<1>2. CASE Kind[g] = "cron"
  <2>1. /\ NextFire(g, a) = (a \div Period[g] + 1) * Period[g]
        /\ NextFire(g, b) = (b \div Period[g] + 1) * Period[g]
    BY <1>2 DEF NextFire
  <2>2. (a \div Period[g] + 1) * Period[g] <= (b \div Period[g] + 1) * Period[g]
    BY <1>0, RoundsMono
  <2>3. a \div Period[g] \in Nat /\ b \div Period[g] \in Nat
    BY <1>0, Rounds
  <2>4. NextFire(g, a) \in Nat /\ NextFire(g, b) \in Nat
    BY <1>0, <2>1, <2>3
  <2> QED  BY <2>1, <2>2, <2>4
<1>3. CASE Kind[g] = "at"
  <2>1. NextFire(g, a) = AtTime[g] /\ NextFire(g, b) = AtTime[g]
    BY <1>3 DEF NextFire
  <2> QED  BY <1>0, <2>1
<1> QED  BY <1>0, <1>1, <1>2, <1>3

-----------------------------------------------------------------------------
(* What the steps do to calls and rows                                     *)

Places == {"idle", "begin", "session", "lock", "cycle", "ran", "none", "raised", "delete"}

\* Only the call p changes.
OnlyCall(p) == \A q \in Runs : q # p => run'[q] = run[q]

\* A call that goes somewhere keeps the rest of its record.
LEMMA GoesEffect ==
  ASSUME NEW p \in Runs, NEW at \in Places, run \in [Runs -> Calls], Goes(p, at)
  PROVE  /\ run' \in [Runs -> Calls] /\ OnlyCall(p)
         /\ run'[p].at = at /\ run'[p].trig = run[p].trig
         /\ run'[p].effective = run[p].effective /\ run'[p].saved = run[p].saved
         /\ run'[p].old = run[p].old
<1>1. PICK c \in Calls : c = run[p]
  OBVIOUS
<1> DEFINE d == [c EXCEPT !.at = at]
<1>2. /\ d \in Calls /\ d.at = at /\ d.trig = c.trig /\ d.effective = c.effective
      /\ d.saved = c.saved /\ d.old = c.old
  BY DEF Calls, Places
<1>3. run' = [run EXCEPT ![p] = d]
  BY <1>1 DEF Goes
<1> HIDE DEF d
<1>4. run' \in [Runs -> Calls] /\ OnlyCall(p) /\ run'[p] = d
  BY <1>2, <1>3 DEF OnlyCall
<1> QED  BY <1>1, <1>2, <1>4

\* An idle call has nothing.
LEMMA IdleCall ==
  /\ Idle \in Calls /\ Idle.at = "idle" /\ Idle.trig = None /\ Idle.effective = None
  /\ Idle.saved = None /\ Idle.old = None
BY DEF Idle, Calls

\* A call that ends.
LEMMA EndEffect ==
  ASSUME NEW p \in Runs, run \in [Runs -> Calls], run' = [run EXCEPT ![p] = Idle]
  PROVE  run' \in [Runs -> Calls] /\ OnlyCall(p) /\ run'[p] = Idle
BY IdleCall DEF OnlyCall

\* A call that begins for a trigger.
LEMMA BeginEffect ==
  ASSUME NEW p \in Runs, NEW s \in Snapshots, run \in [Runs -> Calls],
         run' = [run EXCEPT ![p] = [Idle EXCEPT !.at = "begin", !.trig = s]]
  PROVE  /\ run' \in [Runs -> Calls] /\ OnlyCall(p)
         /\ run'[p].at = "begin" /\ run'[p].trig = s /\ run'[p].old = None
         /\ run'[p].effective = None /\ run'[p].saved = None
<1> DEFINE d == [Idle EXCEPT !.at = "begin", !.trig = s]
<1>2. /\ d \in Calls /\ d.at = "begin" /\ d.trig = s /\ d.old = None
      /\ d.effective = None /\ d.saved = None
  BY DEF Idle, Calls
<1>3. run' = [run EXCEPT ![p] = d]
  OBVIOUS
<1> HIDE DEF d
<1>4. run' \in [Runs -> Calls] /\ OnlyCall(p) /\ run'[p] = d
  BY <1>2, <1>3 DEF OnlyCall
<1> QED  BY <1>2, <1>4

\* A call that has passed the checks of its task knows its mode.
LEMMA ChecksEffect ==
  ASSUME NEW p \in Runs, TypeOK, CallInv, RunChecks(p)
  PROVE  /\ run' \in [Runs -> Calls] /\ OnlyCall(p) /\ run[p].at = "begin"
         /\ run'[p].at \in {"none", "raised", "session"}
         /\ run'[p].trig = run[p].trig /\ run'[p].saved = run[p].saved
         /\ run'[p].old = run[p].old
         /\ run'[p].at = "session" /\ p # Tick =>
              run'[p].effective = RunModeForIntent(Intent[run[p].trig.id], mode)
<1>0. run \in [Runs -> Calls] /\ mode \in RunModes /\ run[p].at = "begin"
  BY DEF TypeOK, RunChecks
<1>1. CASE \E at \in {"none", "raised"} : Goes(p, at)
  <2>1. PICK at \in {"none", "raised"} : Goes(p, at)
    BY <1>1
  <2>2. at \in Places
    BY DEF Places
  <2> QED  BY <1>0, <2>1, <2>2, GoesEffect
<1>2. CASE ~\E at \in {"none", "raised"} : Goes(p, at)
  <2> DEFINE m == IF p = Tick THEN None ELSE RunModeForIntent(Intent[run[p].trig.id], mode)
  <2>1. m \in RunModes \cup {None}
    BY <1>0 DEF RunModeForIntent, RunModes
  <2>2. PICK c \in Calls : c = run[p]
    BY <1>0
  <2>3. run' = [run EXCEPT ![p] = [c EXCEPT !.at = "session", !.effective = m]]
    BY <1>2, <2>2 DEF RunChecks
  <2>5. p # Tick => m = RunModeForIntent(Intent[run[p].trig.id], mode)
    OBVIOUS
  <2> HIDE DEF m
  <2> DEFINE d == [c EXCEPT !.at = "session", !.effective = m]
  <2>4. /\ d \in Calls /\ d.at = "session" /\ d.trig = c.trig /\ d.effective = m
        /\ d.saved = c.saved /\ d.old = c.old
    BY <2>1 DEF Calls
  <2>6. run' = [run EXCEPT ![p] = d]
    BY <2>3
  <2> HIDE DEF d
  <2>7. run' \in [Runs -> Calls] /\ OnlyCall(p) /\ run'[p] = d
    BY <1>0, <2>4, <2>6 DEF OnlyCall
  <2> QED  BY <1>0, <2>2, <2>4, <2>5, <2>7
<1> QED  BY <1>1, <1>2

\* A call that takes the lock keeps what to put back.
LEMMA BeginsEffect ==
  ASSUME NEW p \in Runs, TypeOK, RunBegins(p)
  PROVE  /\ run' \in [Runs -> Calls] /\ OnlyCall(p) /\ run[p].at = "lock"
         /\ run'[p].at = "cycle" /\ run'[p].trig = run[p].trig /\ run'[p].old = run[p].old
         /\ lock = None /\ lock' = p /\ mode' \in RunModes
         /\ IF run[p].effective \in {None, mode}
            THEN mode' = mode /\ run'[p].saved = None
            ELSE mode' = run[p].effective /\ run'[p].saved = mode
<1>0. run \in [Runs -> Calls] /\ mode \in RunModes
  BY DEF TypeOK
<1>1. PICK c \in Calls : c = run[p]
  BY <1>0
<1> DEFINE m == IF run[p].effective \notin {None, mode} THEN mode ELSE None
           d == [c EXCEPT !.at = "cycle", !.saved = m]
<1>2. m \in RunModes \cup {None}
  BY <1>0
<1>3. run' = [run EXCEPT ![p] = d]
  BY <1>1 DEF RunBegins
<1>4. /\ run[p].at = "lock" /\ lock = None /\ lock' = p
      /\ mode' = IF run[p].effective \notin {None, mode} THEN run[p].effective ELSE mode
  BY DEF RunBegins, LockFree
<1>5. c.effective \in RunModes \cup {None}
  BY DEF Calls
<1>6. m = IF run[p].effective \in {None, mode} THEN None ELSE mode
  OBVIOUS
<1> HIDE DEF m
<1>7. /\ d \in Calls /\ d.at = "cycle" /\ d.trig = c.trig /\ d.saved = m /\ d.old = c.old
  BY <1>2 DEF Calls
<1> HIDE DEF d
<1>8. run' \in [Runs -> Calls] /\ OnlyCall(p) /\ run'[p] = d
  BY <1>0, <1>3, <1>7 DEF OnlyCall
<1> QED  BY <1>0, <1>1, <1>4, <1>5, <1>6, <1>7, <1>8

\* A worker that is replaced leaves its mode to the cycle it was in.
LEMMA SwapEffect ==
  ASSUME TypeOK, UpdateSwap
  PROVE  /\ run' \in [Runs -> Calls]
         /\ \A p \in Runs : /\ run'[p].at = run[p].at /\ run'[p].trig = run[p].trig
                            /\ run'[p].effective = run[p].effective
                            /\ run'[p].saved = run[p].saved
                            /\ IF run[p].at = "cycle" /\ run[p].old = None
                               THEN run'[p].old = mode ELSE run'[p].old = run[p].old
<1>0. run \in [Runs -> Calls] /\ mode \in RunModes
  BY DEF TypeOK
<1>1. ASSUME NEW p \in Runs
      PROVE  /\ run'[p] \in Calls
             /\ run'[p].at = run[p].at /\ run'[p].trig = run[p].trig
             /\ run'[p].effective = run[p].effective /\ run'[p].saved = run[p].saved
             /\ IF run[p].at = "cycle" /\ run[p].old = None
                THEN run'[p].old = mode ELSE run'[p].old = run[p].old
  <2>1. PICK c \in Calls : c = run[p]
    BY <1>0
  <2> DEFINE d == [c EXCEPT !.old = mode]
  <2>2. /\ d \in Calls /\ d.at = c.at /\ d.trig = c.trig /\ d.effective = c.effective
        /\ d.saved = c.saved /\ d.old = mode
    BY <1>0 DEF Calls
  <2>3. run'[p] = IF c.at = "cycle" /\ c.old = None THEN d ELSE c
    BY <2>1 DEF UpdateSwap
  <2> HIDE DEF d
  <2> QED  BY <2>1, <2>2, <2>3
<1>2. run' = [p \in Runs |-> run'[p]]
  BY DEF UpdateSwap
<1> QED  BY <1>1, <1>2

\* Only the row of g changes.
OnlyRow(g) == \A h \in Triggers : h # g => row'[h] = row[h]

\* A trigger gets a status.
LEMMA StatusEffect ==
  ASSUME NEW g \in Triggers, NEW s \in {"active", "paused", "error", "exhausted", "deleted"},
         row \in [Triggers -> Rows], row' = [row EXCEPT ![g].status = s]
  PROVE  /\ row' \in [Triggers -> Rows] /\ OnlyRow(g)
         /\ row'[g].status = s /\ row'[g].enabled = row[g].enabled
         /\ row'[g].next = row[g].next /\ row'[g].last = row[g].last
<1>1. PICK r \in Rows : r = row[g]
  OBVIOUS
<1> DEFINE d == [r EXCEPT !.status = s]
<1>2. /\ d \in Rows /\ d.status = s /\ d.enabled = r.enabled
      /\ d.next = r.next /\ d.last = r.last
  BY DEF Rows
<1>3. row' = [row EXCEPT ![g] = d]
  BY <1>1
<1> HIDE DEF d
<1> QED  BY <1>1, <1>2, <1>3 DEF OnlyRow

\* A trigger gets its next fire time.
LEMMA NextEffect ==
  ASSUME NEW g \in Triggers, NEW n \in Times,
         row \in [Triggers -> Rows], row' = [row EXCEPT ![g].next = n]
  PROVE  /\ row' \in [Triggers -> Rows] /\ OnlyRow(g)
         /\ row'[g].next = n /\ row'[g].enabled = row[g].enabled
         /\ row'[g].status = row[g].status /\ row'[g].last = row[g].last
<1>1. PICK r \in Rows : r = row[g]
  OBVIOUS
<1> DEFINE d == [r EXCEPT !.next = n]
<1>2. /\ d \in Rows /\ d.next = n /\ d.enabled = r.enabled
      /\ d.status = r.status /\ d.last = r.last
  BY DEF Rows
<1>3. row' = [row EXCEPT ![g] = d]
  BY <1>1
<1> HIDE DEF d
<1> QED  BY <1>1, <1>2, <1>3 DEF OnlyRow

\* An edit writes the flag and the next fire time.
LEMMA EditEffect ==
  ASSUME NEW g \in Triggers, NEW on \in BOOLEAN, NEW n \in Times,
         row \in [Triggers -> Rows],
         row' = [row EXCEPT ![g].enabled = on, ![g].next = n]
  PROVE  /\ row' \in [Triggers -> Rows] /\ OnlyRow(g)
         /\ row'[g].next = n /\ (row'[g].enabled <=> on)
         /\ row'[g].status = row[g].status /\ row'[g].last = row[g].last
<1>1. PICK r \in Rows : r = row[g]
  OBVIOUS
<1> DEFINE e == [r EXCEPT !.enabled = on]
<1>2. /\ e \in Rows /\ (e.enabled <=> on) /\ e.next = r.next
      /\ e.status = r.status /\ e.last = r.last
  BY DEF Rows
<1>3. row' = [row EXCEPT ![g] = [e EXCEPT !.next = n]]
  BY <1>1
<1> HIDE DEF e
<1> DEFINE d == [e EXCEPT !.next = n]
<1>4. /\ d \in Rows /\ d.next = n /\ d.enabled = e.enabled
      /\ d.status = e.status /\ d.last = e.last
  BY <1>2 DEF Rows
<1>5. row' = [row EXCEPT ![g] = d]
  BY <1>3
<1> HIDE DEF d
<1> QED  BY <1>1, <1>2, <1>4, <1>5 DEF OnlyRow

\* A fire is recorded, unless the trigger is deleted.
LEMMA RecordEffect ==
  ASSUME NEW g \in Triggers, NEW l \in Times, NEW n \in Times,
         NEW s \in {None, "error", "exhausted"},
         row \in [Triggers -> Rows], RecordFire(g, l, n, s)
  PROVE  /\ row' \in [Triggers -> Rows] /\ OnlyRow(g)
         /\ ~Exists(g) => row' = row
         /\ Exists(g) =>
              /\ row'[g].next = n /\ row'[g].enabled = row[g].enabled
              /\ row'[g].status = IF s = None THEN row[g].status ELSE s
<1>1. CASE ~Exists(g)
  BY <1>1 DEF RecordFire, OnlyRow
<1>2. CASE Exists(g)
  <2>1. PICK r \in Rows : r = row[g]
    OBVIOUS
  <2> DEFINE t == IF s = None THEN r.status ELSE s
  <2>0. t \in {"active", "paused", "error", "exhausted", "deleted"}
    BY Names DEF Rows
  <2>2. row' = [row EXCEPT ![g] = [[[r EXCEPT !.last = l] EXCEPT !.next = n] EXCEPT !.status = t]]
    BY <1>2, <2>1 DEF RecordFire, Rows
  <2>s. t = IF s = None THEN row[g].status ELSE s
    BY <2>1
  <2> HIDE DEF t
  <2> DEFINE a == [r EXCEPT !.last = l]
  <2>3. a \in Rows /\ a.enabled = r.enabled
    BY DEF Rows
  <2>4. row' = [row EXCEPT ![g] = [[a EXCEPT !.next = n] EXCEPT !.status = t]]
    BY <2>2
  <2> HIDE DEF a
  <2> DEFINE b == [a EXCEPT !.next = n]
  <2>5. b \in Rows /\ b.enabled = a.enabled /\ b.next = n
    BY <2>3 DEF Rows
  <2>6. row' = [row EXCEPT ![g] = [b EXCEPT !.status = t]]
    BY <2>4
  <2> HIDE DEF b
  <2> DEFINE c == [b EXCEPT !.status = t]
  <2>7. c \in Rows /\ c.enabled = b.enabled /\ c.next = b.next /\ c.status = t
    BY <2>0, <2>5 DEF Rows
  <2>8. row' = [row EXCEPT ![g] = c]
    BY <2>6
  <2> HIDE DEF c
  <2> QED  BY <1>2, <2>1, <2>s, <2>3, <2>5, <2>7, <2>8 DEF OnlyRow
<1> QED  BY <1>1, <1>2

-----------------------------------------------------------------------------
(* Every step keeps the types                                              *)

\* The steps that touch no call and no lock.
Still == \/ ClockTick \/ KillStopsTask \/ ScanBegins
         \/ \E on \in BOOLEAN : SetKill(on)
         \/ \E s \in {"running", "stopped"} : SetStatus(s)
         \/ \E m \in Modes : UpdateBegin(m)
         \/ \E s \in scan : ScanPasses(s) \/ ScanSetsNext(s)
         \/ \E g \in Triggers : \/ Pause(g) \/ Resume(g) \/ Delete(g) \/ EditRead(g)
                                \/ \E on \in BOOLEAN : EditWrite(g, on)

\* The steps that end a fire of the scheduler.
FireEnds == FireHadNoCycle \/ FireFailed \/ FireRecorded \/ FireDeletes

\* The steps of the task's triggers.
LEMMA Steps ==
  ASSUME Next
  PROVE  \/ Still \/ FireEnds \/ UpdateSwap \/ Crash \/ ManualTick \/ TickEnds
         \/ \E g \in Triggers : ManualRun(g) \/ ManualEnds(g)
         \/ \E s \in scan : ScanFires(s)
         \/ \E p \in Runs : RunStep(p)
BY DEF Next, SchedStep, Still, FireEnds

\* What a still step leaves alone.
LEMMA StillEffect ==
  ASSUME Still
  PROVE  run' = run /\ lock' = lock /\ mode' = mode /\ built' = built
BY DEF Still, ClockTick, KillStopsTask, ScanBegins, SetKill, SetStatus, UpdateBegin, ScanPasses,
       ScanSetsNext, Pause, Resume, Delete, EditRead, EditWrite, modeVars, dbVars, scanVars

\* What the end of a fire does to its call.
LEMMA FireEndsEffect ==
  ASSUME TypeOK, FireEnds
  PROVE  /\ run' \in [Runs -> Calls] /\ OnlyCall(Sched)
         /\ run[Sched].at \in {"ran", "none", "raised", "delete"}
         /\ \/ run'[Sched] = Idle
            \/ run[Sched].at = "ran" /\ run'[Sched].at = "delete"
               /\ run'[Sched].trig = run[Sched].trig
         /\ lock' = lock /\ mode' = mode /\ built' = built /\ now' = now
<1>1. run \in [Runs -> Calls] /\ Sched \in Runs
  BY Names DEF TypeOK
<1>2. lock' = lock /\ mode' = mode /\ built' = built /\ now' = now
  BY DEF FireEnds, FireHadNoCycle, FireFailed, FireRecorded, FireDeletes, modeVars
<1>3. \/ run' = [run EXCEPT ![Sched] = Idle] /\ run[Sched].at \in {"ran", "none", "raised", "delete"}
      \/ Goes(Sched, "delete") /\ run[Sched].at = "ran"
  BY DEF FireEnds, FireHadNoCycle, FireFailed, FireRecorded, FireDeletes
<1>4. "delete" \in Places
  BY DEF Places
<1> QED  BY <1>1, <1>2, <1>3, <1>4, GoesEffect, EndEffect

\* What the end of a cycle does to its call.
LEMMA RunEndsEffect ==
  ASSUME NEW p \in Runs, TypeOK, RunEnds(p)
  PROVE  /\ run' \in [Runs -> Calls] /\ OnlyCall(p) /\ run[p].at = "cycle"
         /\ run'[p].at \in {"ran", "none", "raised"}
         /\ run'[p].at = "ran" => lastRunId
         /\ run'[p].at = "none" => ~lastRunId
         /\ run'[p].trig = run[p].trig /\ run'[p].old = run[p].old
         /\ lock' = None /\ mode' = Restored(p)
<1>1. PICK at \in {"ran", "none", "raised"} :
        Goes(p, at) /\ (at = "ran" => lastRunId) /\ (at = "none" => ~lastRunId)
  BY DEF RunEnds
<1>2. at \in Places /\ run \in [Runs -> Calls]
  BY DEF Places, TypeOK
<1>3. run[p].at = "cycle" /\ lock' = None /\ mode' = Restored(p)
  BY DEF RunEnds
<1> QED  BY <1>1, <1>2, <1>3, GoesEffect

\* A session that is opened, or not.
LEMMA OpensEffect ==
  ASSUME NEW p \in Runs, TypeOK, RunOpensSession(p)
  PROVE  /\ run' \in [Runs -> Calls] /\ OnlyCall(p) /\ run[p].at = "session"
         /\ run'[p].at \in {"lock", "raised"}
         /\ run'[p].trig = run[p].trig /\ run'[p].old = run[p].old
         /\ run'[p].effective = run[p].effective /\ run'[p].saved = run[p].saved
<1>1. PICK at \in {"lock", "raised"} : Goes(p, at)
  BY DEF RunOpensSession
<1>2. at \in Places /\ run \in [Runs -> Calls] /\ run[p].at = "session"
  BY DEF Places, TypeOK, RunOpensSession
<1> QED  BY <1>1, <1>2, GoesEffect

\* A snapshot is one.
LEMMA SnapshotType ==
  ASSUME NEW g \in Triggers, TypeOK
  PROVE  /\ Snapshot(g) \in Snapshots /\ Snapshot(g).id = g
         /\ Snapshot(g).next = row[g].next
<1>1. PICK r \in Rows : r = row[g]
  BY DEF TypeOK
<1> QED  BY <1>1 DEF Snapshot, Snapshots, Rows

\* The trigger of a fire is one.
LEMMA FiredType ==
  ASSUME TypeOK, CallInv, run[Sched].at # "idle"
  PROVE  /\ Fired \in Triggers /\ run[Sched].trig \in Snapshots
         /\ run[Sched].trig.next \in Times /\ run[Sched].trig.last \in Times
<1>1. run[Sched].trig \in Snapshots
  BY Names DEF CallInv, CallFor
<1> QED  BY <1>1 DEF Fired, Snapshots

\* Every step keeps the type of the rows.
LEMMA RowsTyped ==
  ASSUME TypeOK, CallInv, Next
  PROVE  row' \in [Triggers -> Rows]
<1>0. /\ row \in [Triggers -> Rows] /\ now \in Nat /\ scanAt \in Nat /\ run \in [Runs -> Calls]
      /\ scan \subseteq Snapshots /\ edit \in [Triggers -> {None} \cup [last : Times]]
      /\ now \in Times
      /\ \A g \in Triggers, base \in Nat : NextFire(g, base) \in Times
  <2>1. \A g \in Triggers, base \in Nat : NextFire(g, base) \in Nat
    <3>1. ASSUME NEW g \in Triggers, NEW base \in Nat PROVE NextFire(g, base) \in Nat
      BY NextFireMono
    <3> QED  BY <3>1
  <2> QED  BY <2>1 DEF TypeOK, Times
<1>1. ASSUME NEW g \in Triggers, Pause(g) \/ Resume(g) \/ Delete(g)
      PROVE  row' \in [Triggers -> Rows]
  <2>1. PICK s \in {"paused", "active", "deleted"} : row' = [row EXCEPT ![g].status = s]
    BY <1>1 DEF Pause, Resume, Delete
  <2> QED  BY <1>0, <2>1, StatusEffect
<1>2. ASSUME NEW g \in Triggers, NEW on \in BOOLEAN, EditWrite(g, on)
      PROVE  row' \in [Triggers -> Rows]
  <2> DEFINE base == IF edit[g].last = None THEN now ELSE edit[g].last
  <2>1. base \in Nat
    <3>1. edit[g] \in [last : Times]
      BY <1>0, <1>2 DEF EditWrite
    <3> QED  BY <1>0, <3>1 DEF Times
  <2>2. NextFire(g, base) \in Times
    BY <1>0, <2>1
  <2>3. row' = row \/ row' = [row EXCEPT ![g].enabled = on, ![g].next = NextFire(g, base)]
    BY <1>2 DEF EditWrite
  <2> HIDE DEF base
  <2> QED  BY <1>0, <2>2, <2>3, EditEffect
<1>3. ASSUME NEW g \in Triggers, ManualEnds(g)
      PROVE  row' \in [Triggers -> Rows]
  <2>1. CASE row' = row
    BY <1>0, <2>1
  <2>2. CASE row' # row
    <3>1. RecordFire(g, now, run[g].trig.next, None) /\ run[g].at # "idle"
      BY <1>3, <2>2 DEF ManualEnds
    <3>2. run[g].trig \in Snapshots
      BY <3>1, Names DEF CallInv, CallFor
    <3>3. run[g].trig.next \in Times
      BY <3>2 DEF Snapshots
    <3> QED  BY <1>0, <3>1, <3>3, RecordEffect
  <2> QED  BY <2>1, <2>2
<1>4. ASSUME NEW s \in scan, ScanSetsNext(s)
      PROVE  row' \in [Triggers -> Rows]
  <2>1. s.id \in Triggers
    BY <1>0 DEF Snapshots
  <2>2. row' = row \/ row' = [row EXCEPT ![s.id].next = NextFire(s.id, scanAt)]
    BY <1>4 DEF ScanSetsNext, FirstFire
  <2>3. NextFire(s.id, scanAt) \in Times
    BY <1>0, <2>1
  <2> QED  BY <1>0, <2>1, <2>2, <2>3, NextEffect
<1>5. CASE FireEnds
  <2>1. Fired \in Triggers /\ run[Sched].trig.last \in Times
    BY <1>5, FireEndsEffect, FiredType
  <2>2. CASE row' = row
    BY <1>0, <2>2
  <2>3. CASE row' # row
    <3>0. NextFire(Fired, now) \in Times /\ None \in Times
      BY <1>0, <2>1 DEF Times
    <3>1. \/ \E l, n \in Times, s \in {None, "error", "exhausted"} : RecordFire(Fired, l, n, s)
          \/ row' = [row EXCEPT ![Fired].status = "deleted"]
      BY <1>0, <1>5, <2>1, <2>3, <3>0
         DEF FireEnds, FireHadNoCycle, FireFailed, FireRecorded, FireDeletes
    <3> QED  BY <1>0, <2>1, <3>1, RecordEffect, StatusEffect
  <2> QED  BY <2>2, <2>3
<1>6. \/ row' = row \/ FireEnds
      \/ \E g \in Triggers : \/ Pause(g) \/ Resume(g) \/ Delete(g) \/ ManualEnds(g)
                             \/ \E on \in BOOLEAN : EditWrite(g, on)
      \/ \E s \in scan : ScanSetsNext(s)
  BY DEF Next, SchedStep, FireEnds, ClockTick, KillStopsTask, ScanBegins, SetKill, SetStatus,
         UpdateBegin, UpdateSwap, ScanPasses, EditRead, ManualRun, ManualTick, TickEnds, ScanFires,
         RunStep, RunChecks, RunOpensSession, RunBegins, RunEnds, Crash, dbVars
<1> QED  BY <1>0, <1>1, <1>2, <1>3, <1>4, <1>5, <1>6

\* Every step keeps the type of the calls.
LEMMA RunTyped ==
  ASSUME TypeOK, CallInv, Next
  PROVE  run' \in [Runs -> Calls]
<1>0. run \in [Runs -> Calls] /\ scan \subseteq Snapshots /\ Tick \in Runs /\ Triggers \subseteq Runs
      /\ Sched \in Runs
  BY Names DEF TypeOK
<1>1. CASE Still
  BY <1>0, <1>1, StillEffect
<1>2. CASE FireEnds
  BY <1>2, FireEndsEffect
<1>3. CASE UpdateSwap
  BY <1>3, SwapEffect
<1>4. CASE Crash
  <2>1. run' = [p \in Runs |-> Idle]
    BY <1>4 DEF Crash
  <2> QED  BY <2>1, IdleCall
<1>5. CASE ManualTick
  <2>1. Goes(Tick, "begin") /\ "begin" \in Places
    BY <1>5 DEF ManualTick, Places
  <2> QED  BY <1>0, <2>1, GoesEffect
<1>6. CASE TickEnds
  BY <1>0, <1>6, EndEffect DEF TickEnds
<1>7. ASSUME NEW g \in Triggers, ManualRun(g) \/ ManualEnds(g) PROVE run' \in [Runs -> Calls]
  <2>1. \/ run' = [run EXCEPT ![g] = [Idle EXCEPT !.at = "begin", !.trig = Snapshot(g)]]
        \/ run' = [run EXCEPT ![g] = Idle]
    BY <1>7 DEF ManualRun, ManualEnds
  <2>2. Snapshot(g) \in Snapshots /\ g \in Runs
    BY <1>0, SnapshotType
  <2> QED  BY <1>0, <2>1, <2>2, BeginEffect, EndEffect
<1>8. ASSUME NEW s \in scan, ScanFires(s) PROVE run' \in [Runs -> Calls]
  <2>1. run' = [run EXCEPT ![Sched] = [Idle EXCEPT !.at = "begin", !.trig = s]]
    BY <1>8 DEF ScanFires
  <2> QED  BY <1>0, <2>1, BeginEffect
<1>9. ASSUME NEW p \in Runs, RunStep(p) PROVE run' \in [Runs -> Calls]
  BY <1>9, ChecksEffect, OpensEffect, BeginsEffect, RunEndsEffect DEF RunStep
<1> QED  BY <1>1, <1>2, <1>3, <1>4, <1>5, <1>6, <1>7, <1>8, <1>9, Steps

\* Every step keeps the types of the clock, the switch and the task.
LEMMA TaskTyped ==
  ASSUME TypeOK, Next
  PROVE  /\ now' \in Nat /\ scanAt' \in Nat
         /\ kill' \in {"off", "stopping", "on"} /\ status' \in {"running", "stopped", "error"}
<1>1. now' = now \/ now' = now + 1
  BY DEF Next, SchedStep, ClockTick, KillStopsTask, ScanBegins, SetKill, SetStatus,
         UpdateBegin, UpdateSwap, ScanPasses, EditRead, ManualRun, ManualTick, TickEnds, ScanFires,
         RunStep, RunChecks, RunOpensSession, RunBegins, RunEnds, Crash, Pause, Resume, Delete,
         EditWrite, ManualEnds, ScanSetsNext, FireHadNoCycle, FireFailed, FireRecorded, FireDeletes
<1>2. scanAt' \in {scanAt, now, 0}
  BY DEF Next, SchedStep, ClockTick, KillStopsTask, ScanBegins, SetKill, SetStatus,
         UpdateBegin, UpdateSwap, ScanPasses, EditRead, ManualRun, ManualTick, TickEnds, ScanFires,
         RunStep, RunChecks, RunOpensSession, RunBegins, RunEnds, Crash, Pause, Resume, Delete,
         EditWrite, ManualEnds, ScanSetsNext, FireHadNoCycle, FireFailed, FireRecorded, FireDeletes,
         scanVars, ScanGoesOn, ScanAborts
<1>3. kill' \in {kill, "off", "stopping", "on"}
  BY DEF Next, SchedStep, ClockTick, KillStopsTask, ScanBegins, SetKill, SetStatus,
         UpdateBegin, UpdateSwap, ScanPasses, EditRead, ManualRun, ManualTick, TickEnds, ScanFires,
         RunStep, RunChecks, RunOpensSession, RunBegins, RunEnds, Crash, Pause, Resume, Delete,
         EditWrite, ManualEnds, ScanSetsNext, FireHadNoCycle, FireFailed, FireRecorded, FireDeletes,
         dbVars
<1>4. status' \in {status, "running", "stopped", "error"}
  BY DEF Next, SchedStep, ClockTick, KillStopsTask, ScanBegins, SetKill, SetStatus,
         UpdateBegin, UpdateSwap, ScanPasses, EditRead, ManualRun, ManualTick, TickEnds, ScanFires,
         RunStep, RunChecks, RunOpensSession, RunBegins, RunEnds, Crash, Pause, Resume, Delete,
         EditWrite, ManualEnds, ScanSetsNext, FireHadNoCycle, FireFailed, FireRecorded, FireDeletes
<1>5. /\ now \in Nat /\ scanAt \in Nat
      /\ kill \in {"off", "stopping", "on"} /\ status \in {"running", "stopped", "error"}
  BY DEF TypeOK
<1> QED  BY <1>1, <1>2, <1>3, <1>4, <1>5

\* Every step keeps the types of the worker's mode and the lock.
LEMMA ModeTyped ==
  ASSUME TypeOK, Next
  PROVE  /\ mode' \in RunModes /\ built' \in RunModes /\ config' \in Modes
         /\ update' \in BOOLEAN /\ lastRunId' \in BOOLEAN /\ lock' \in Runs \cup {None}
<1>0. /\ mode \in RunModes /\ built \in RunModes /\ config \in Modes /\ config \in RunModes
      /\ update \in BOOLEAN /\ lastRunId \in BOOLEAN /\ lock \in Runs \cup {None}
      /\ run \in [Runs -> Calls]
  BY DEF TypeOK, RunModes
<1>1. \/ mode' \in {mode, config}
      \/ \E p \in Runs : RunBegins(p) \/ RunEnds(p)
  BY DEF Next, SchedStep, ClockTick, KillStopsTask, ScanBegins, SetKill, SetStatus,
         UpdateBegin, UpdateSwap, ScanPasses, EditRead, ManualRun, ManualTick, TickEnds, ScanFires,
         RunStep, RunChecks, RunOpensSession, Crash, Pause, Resume, Delete,
         EditWrite, ManualEnds, ScanSetsNext, FireHadNoCycle, FireFailed, FireRecorded, FireDeletes,
         modeVars
<1>2. ASSUME NEW p \in Runs, RunEnds(p) PROVE mode' \in RunModes
  <2>1. run[p].saved \in RunModes \cup {None}
    BY <1>0 DEF Calls
  <2> QED  BY <1>0, <1>2, <2>1, RunEndsEffect DEF Restored
<1>3. mode' \in RunModes
  BY <1>0, <1>1, <1>2, BeginsEffect
<1>4. built' \in {built, config}
  BY DEF Next, SchedStep, ClockTick, KillStopsTask, ScanBegins, SetKill, SetStatus,
         UpdateBegin, UpdateSwap, ScanPasses, EditRead, ManualRun, ManualTick, TickEnds, ScanFires,
         RunStep, RunChecks, RunOpensSession, RunBegins, RunEnds, Crash, Pause, Resume, Delete,
         EditWrite, ManualEnds, ScanSetsNext, FireHadNoCycle, FireFailed, FireRecorded, FireDeletes,
         modeVars
<1>5. config' = config \/ config' \in Modes
  BY DEF Next, SchedStep, ClockTick, KillStopsTask, ScanBegins, SetKill, SetStatus,
         UpdateBegin, UpdateSwap, ScanPasses, EditRead, ManualRun, ManualTick, TickEnds, ScanFires,
         RunStep, RunChecks, RunOpensSession, RunBegins, RunEnds, Crash, Pause, Resume, Delete,
         EditWrite, ManualEnds, ScanSetsNext, FireHadNoCycle, FireFailed, FireRecorded, FireDeletes,
         modeVars
<1>6. /\ update' = update \/ update' = TRUE \/ update' = FALSE
      /\ lastRunId' = lastRunId \/ lastRunId' = TRUE \/ lastRunId' = FALSE
  BY DEF Next, SchedStep, ClockTick, KillStopsTask, ScanBegins, SetKill, SetStatus,
         UpdateBegin, UpdateSwap, ScanPasses, EditRead, ManualRun, ManualTick, TickEnds, ScanFires,
         RunStep, RunChecks, RunOpensSession, RunBegins, RunEnds, Crash, Pause, Resume, Delete,
         EditWrite, ManualEnds, ScanSetsNext, FireHadNoCycle, FireFailed, FireRecorded, FireDeletes,
         modeVars
<1>7. lock' = lock \/ lock' = None \/ \E p \in Runs : lock' = p
  BY DEF Next, SchedStep, ClockTick, KillStopsTask, ScanBegins, SetKill, SetStatus,
         UpdateBegin, UpdateSwap, ScanPasses, EditRead, ManualRun, ManualTick, TickEnds, ScanFires,
         RunStep, RunChecks, RunOpensSession, RunBegins, RunEnds, Crash, Pause, Resume, Delete,
         EditWrite, ManualEnds, ScanSetsNext, FireHadNoCycle, FireFailed, FireRecorded, FireDeletes
<1> QED  BY <1>0, <1>3, <1>4, <1>5, <1>6, <1>7

\* Every step keeps the types of the snapshots and the edits.
LEMMA ReadsTyped ==
  ASSUME TypeOK, CallInv, Next
  PROVE  /\ scan' \subseteq Snapshots
         /\ edit' \in [Triggers -> {None} \cup [last : Times]]
<1>0. /\ row \in [Triggers -> Rows] /\ scan \subseteq Snapshots
      /\ edit \in [Triggers -> {None} \cup [last : Times]]
  BY DEF TypeOK
<1>1. scan' \subseteq scan \/ scan' = {Snapshot(g) : g \in Schedulable}
  BY DEF Next, SchedStep, ClockTick, KillStopsTask, ScanBegins, SetKill, SetStatus,
         UpdateBegin, UpdateSwap, ScanPasses, EditRead, ManualRun, ManualTick, TickEnds, ScanFires,
         RunStep, RunChecks, RunOpensSession, RunBegins, RunEnds, Crash, Pause, Resume, Delete,
         EditWrite, ManualEnds, ScanSetsNext, FireHadNoCycle, FireFailed, FireRecorded, FireDeletes,
         scanVars, ScanGoesOn, ScanAborts
<1>2. {Snapshot(g) : g \in Schedulable} \subseteq Snapshots
  BY SnapshotType DEF Schedulable
<1>3. \/ edit' = edit \/ edit' = [g \in Triggers |-> None]
      \/ \E g \in Triggers : \/ edit' = [edit EXCEPT ![g] = [last |-> row[g].last]]
                             \/ edit' = [edit EXCEPT ![g] = None]
  BY DEF Next, SchedStep, ClockTick, KillStopsTask, ScanBegins, SetKill, SetStatus,
         UpdateBegin, UpdateSwap, ScanPasses, EditRead, ManualRun, ManualTick, TickEnds, ScanFires,
         RunStep, RunChecks, RunOpensSession, RunBegins, RunEnds, Crash, Pause, Resume, Delete,
         EditWrite, ManualEnds, ScanSetsNext, FireHadNoCycle, FireFailed, FireRecorded, FireDeletes
<1>4. \A g \in Triggers : [last |-> row[g].last] \in [last : Times]
  BY <1>0 DEF Rows
<1> QED  BY <1>0, <1>1, <1>2, <1>3, <1>4

\* The bounds of the model are only ever approached by one.
LEMMA CountersTyped ==
  ASSUME TypeOK, Next
  PROVE  /\ calls' \in Nat /\ updates' \in Nat /\ faults' \in Nat /\ updates' >= updates
         /\ ~(\E m \in Modes : UpdateBegin(m)) => updates' = updates
<1>0. calls \in Nat /\ updates \in Nat /\ faults \in Nat
  BY DEF TypeOK
<1>1. calls' = calls \/ calls' = calls + 1
  BY DEF Next, SchedStep, ClockTick, KillStopsTask, ScanBegins, SetKill, SetStatus,
         UpdateBegin, UpdateSwap, ScanPasses, EditRead, ManualRun, ManualTick, TickEnds, ScanFires,
         RunStep, RunChecks, RunOpensSession, RunBegins, RunEnds, Crash, Pause, Resume, Delete,
         EditWrite, ManualEnds, ScanSetsNext, FireHadNoCycle, FireFailed, FireRecorded, FireDeletes,
         counters, ACall
<1>2. updates' = updates \/ ((\E m \in Modes : UpdateBegin(m)) /\ updates' = updates + 1)
  BY DEF Next, SchedStep, ClockTick, KillStopsTask, ScanBegins, SetKill, SetStatus,
         UpdateBegin, UpdateSwap, ScanPasses, EditRead, ManualRun, ManualTick, TickEnds, ScanFires,
         RunStep, RunChecks, RunOpensSession, RunBegins, RunEnds, Crash, Pause, Resume, Delete,
         EditWrite, ManualEnds, ScanSetsNext, FireHadNoCycle, FireFailed, FireRecorded, FireDeletes,
         counters
<1>3. faults' = faults \/ faults' = faults + 1
  BY DEF Next, SchedStep, ClockTick, KillStopsTask, ScanBegins, SetKill, SetStatus,
         UpdateBegin, UpdateSwap, ScanPasses, EditRead, ManualRun, ManualTick, TickEnds, ScanFires,
         RunStep, RunChecks, RunOpensSession, RunBegins, RunEnds, Crash, Pause, Resume, Delete,
         EditWrite, ManualEnds, ScanSetsNext, FireHadNoCycle, FireFailed, FireRecorded, FireDeletes,
         counters, Fault, NoFault
<1> QED  BY <1>0, <1>1, <1>2, <1>3

\* An excuse more for g.
LEMMA OneMore ==
  ASSUME NEW g \in Triggers, excuse \in [Triggers -> Nat], Excuse(g)
  PROVE  /\ excuse' \in [Triggers -> Nat] /\ excuse'[g] = excuse[g] + 1
         /\ \A h \in Triggers : h # g => excuse'[h] = excuse[h]
BY DEF Excuse

\* Excuses are only ever added.
LEMMA ExcusesTyped ==
  ASSUME TypeOK, CallInv, Next
  PROVE  excuse' \in [Triggers -> Nat] /\ \A g \in Triggers : excuse'[g] >= excuse[g]
<1>0. excuse \in [Triggers -> Nat]
  BY DEF TypeOK
<1>1. \/ excuse' = excuse
      \/ \E g \in Triggers : Excuse(g)
      \/ run[Sched].at # "idle" /\ Excuse(Fired)
  BY DEF Next, SchedStep, ClockTick, KillStopsTask, ScanBegins, SetKill, SetStatus,
         UpdateBegin, UpdateSwap, ScanPasses, EditRead, ManualRun, ManualTick, TickEnds, ScanFires,
         RunStep, RunChecks, RunOpensSession, RunBegins, RunEnds, Crash, Pause, Resume, Delete,
         EditWrite, ManualEnds, ScanSetsNext, FireHadNoCycle, FireFailed, FireRecorded, FireDeletes,
         history, ExcuseIf, Fired
<1>2. \/ excuse' = excuse \/ \E g \in Triggers : Excuse(g)
  BY <1>1, FiredType
<1>3. ASSUME NEW g \in Triggers, Excuse(g)
      PROVE  excuse' \in [Triggers -> Nat] /\ \A h \in Triggers : excuse'[h] >= excuse[h]
  <2>1. /\ excuse' \in [Triggers -> Nat] /\ excuse'[g] = excuse[g] + 1
        /\ \A h \in Triggers : h # g => excuse'[h] = excuse[h]
    BY <1>0, <1>3, OneMore
  <2>2. ASSUME NEW h \in Triggers PROVE excuse'[h] >= excuse[h]
    <3>1. excuse[h] \in Nat /\ excuse[g] \in Nat
      BY <1>0
    <3> QED  BY <2>1, <3>1
  <2> QED  BY <2>1, <2>2
<1> QED  BY <1>0, <1>2, <1>3

\* What the beginning of a cycle does to the history.
LEMMA FireBeginsEffect ==
  ASSUME TypeOK, CallInv, RunBegins(Sched)
  PROVE  /\ Fired \in Triggers
         /\ quiet' \in [Triggers -> Nat] /\ extra' \in [Triggers -> Nat]
         /\ stale' \in [Triggers -> Nat]
         /\ \A g \in Triggers : g # Fired => /\ quiet'[g] = quiet[g] /\ extra'[g] = extra[g]
                                             /\ stale'[g] = stale[g]
         /\ quiet'[Fired] = IF Kind[Fired] = "at" THEN MaxTime + 1 ELSE NextFire(Fired, now)
         /\ extra'[Fired] = IF now < quiet[Fired] THEN extra[Fired] + 1 ELSE extra[Fired]
         /\ stale'[Fired] = IF SwitchedOff(Fired) THEN stale[Fired] + 1 ELSE stale[Fired]
<1>0. /\ quiet \in [Triggers -> Nat] /\ extra \in [Triggers -> Nat] /\ stale \in [Triggers -> Nat]
      /\ now \in Nat
  BY DEF TypeOK
<1>1. Fired \in Triggers
  BY FiredType DEF RunBegins
<1>2. FireBegins(Fired)
  BY DEF RunBegins, Fired
<1>3. NextFire(Fired, now) \in Nat /\ MaxTime + 1 \in Nat
  BY <1>0, <1>1, NextFireMono, Names
<1>4. /\ quiet' \in [Triggers -> Nat]
      /\ \A g \in Triggers : g # Fired => quiet'[g] = quiet[g]
      /\ quiet'[Fired] = IF Kind[Fired] = "at" THEN MaxTime + 1 ELSE NextFire(Fired, now)
  <2> DEFINE q == IF Kind[Fired] = "at" THEN MaxTime + 1 ELSE NextFire(Fired, now)
  <2>1. quiet' = [quiet EXCEPT ![Fired] = q] /\ q \in Nat
    BY <1>2, <1>3 DEF FireBegins
  <2> HIDE DEF q
  <2>2. quiet' \in [Triggers -> Nat] /\ quiet'[Fired] = q
        /\ \A g \in Triggers : g # Fired => quiet'[g] = quiet[g]
    BY <1>0, <1>1, <2>1
  <2> QED  BY <2>2 DEF q
<1>5. /\ extra' \in [Triggers -> Nat]
      /\ \A g \in Triggers : g # Fired => extra'[g] = extra[g]
      /\ extra'[Fired] = IF now < quiet[Fired] THEN extra[Fired] + 1 ELSE extra[Fired]
  BY <1>0, <1>1, <1>2 DEF FireBegins
<1>6. /\ stale' \in [Triggers -> Nat]
      /\ \A g \in Triggers : g # Fired => stale'[g] = stale[g]
      /\ stale'[Fired] = IF SwitchedOff(Fired) THEN stale[Fired] + 1 ELSE stale[Fired]
  <2>1. stale[Fired] \in Nat /\ stale[Fired] + 1 \in Nat
    BY <1>0, <1>1
  <2>2. stale' = IF SwitchedOff(Fired) THEN [stale EXCEPT ![Fired] = stale[Fired] + 1] ELSE stale
    BY <1>2 DEF FireBegins
  <2> QED  BY <1>0, <1>1, <2>1, <2>2
<1> QED  BY <1>1, <1>4, <1>5, <1>6

\* Only the scheduler's cycles, and people who switch a trigger on, write the
\* history of the fires.
LEMMA HistorySteps ==
  ASSUME Next, ~RunBegins(Sched)
  PROVE  /\ quiet' = quiet /\ extra' = extra
         /\ \/ stale' = stale
            \/ \E g \in Triggers : /\ stale' = [stale EXCEPT ![g] = 0]
                                   /\ Resume(g) \/ \E on \in BOOLEAN : EditWrite(g, on)
BY DEF Next, SchedStep, ClockTick, KillStopsTask, ScanBegins, SetKill, SetStatus,
         UpdateBegin, UpdateSwap, ScanPasses, EditRead, ManualRun, ManualTick, TickEnds, ScanFires,
         RunStep, RunChecks, RunOpensSession, RunBegins, RunEnds, Crash, Pause, Resume, Delete,
         EditWrite, ManualEnds, ScanSetsNext, FireHadNoCycle, FireFailed, FireRecorded, FireDeletes,
         history

\* Every step keeps the types of the history.
LEMMA HistoryTyped ==
  ASSUME TypeOK, CallInv, Next
  PROVE  /\ quiet' \in [Triggers -> Nat] /\ extra' \in [Triggers -> Nat]
         /\ stale' \in [Triggers -> Nat]
<1>0. /\ quiet \in [Triggers -> Nat] /\ extra \in [Triggers -> Nat] /\ stale \in [Triggers -> Nat]
  BY DEF TypeOK
<1>1. CASE RunBegins(Sched)
  BY <1>1, FireBeginsEffect
<1>2. CASE ~RunBegins(Sched)
  <2>1. /\ quiet' = quiet /\ extra' = extra
        /\ stale' = stale \/ \E g \in Triggers : stale' = [stale EXCEPT ![g] = 0]
    BY <1>2, HistorySteps
  <2> QED  BY <1>0, <2>1
<1> QED  BY <1>1, <1>2

\* Every step keeps the types.
LEMMA StepTyped ==
  ASSUME TypeOK, CallInv, Next
  PROVE  TypeOK'
BY RowsTyped, RunTyped, TaskTyped, ModeTyped, ReadsTyped, CountersTyped, ExcusesTyped, HistoryTyped
   DEF TypeOK

-----------------------------------------------------------------------------
(* The calls in flight                                                     *)

\* A call that nobody touches is as before.
LEMMA CallKept ==
  ASSUME NEW p \in Runs, CallFor(p), run'[p] = run[p],
         lock' = p <=> lock = p
  PROVE  CallFor(p)'
BY DEF CallFor, OwnTime

\* An idle call is one.
LEMMA CallEnded ==
  ASSUME NEW p \in Runs, run'[p] = Idle, lock' # p
  PROVE  CallFor(p)'
BY IdleCall DEF CallFor, OwnTime

\* A call that goes on with the record it had is one.
LEMMA CallMoved ==
  ASSUME NEW p \in Runs, CallFor(p), run[p].at # "idle",
         run'[p].at \in {"none", "raised", "ran", "delete"}, run'[p].trig = run[p].trig,
         lock' # p, p # Sched => run'[p].at # "delete"
  PROVE  CallFor(p)'
BY DEF CallFor, OwnTime

\* Every step keeps the calls in order.
LEMMA CallStep ==
  ASSUME TypeOK, CallInv, ScanInv, QuietInv, Next
  PROVE  CallInv'
<1>0. /\ run \in [Runs -> Calls] /\ scan \subseteq Snapshots
      /\ \A p \in Runs : CallFor(p) /\ None # p /\ (run[p].at = "cycle" <=> lock = p)
  BY Names DEF TypeOK, CallInv, CallFor
<1>n. Sched \in Runs /\ Tick \in Runs /\ Sched # Tick /\ Triggers \subseteq Runs
      /\ Sched \notin Triggers /\ Tick \notin Triggers
  BY Names
<1> SUFFICES ASSUME NEW p \in Runs PROVE CallFor(p)'
  BY DEF CallInv
<1>1. CASE Still
  BY <1>0, <1>1, StillEffect, CallKept
<1>2. CASE FireEnds
  <2>1. lock' = lock /\ OnlyCall(Sched) /\ run[Sched].at \in {"ran", "none", "raised", "delete"}
    BY <1>2, FireEndsEffect
  <2>2. CASE p # Sched
    BY <1>0, <2>1, <2>2, CallKept DEF OnlyCall
  <2>3. CASE p = Sched
    <3>1. lock' # Sched /\ run[Sched].at # "idle"
      BY <1>0, <1>n, <2>1
    <3>2. CASE run'[Sched] = Idle
      BY <1>n, <2>3, <3>1, <3>2, CallEnded
    <3>3. CASE run'[Sched] # Idle
      <4>1. run'[Sched].at = "delete" /\ run'[Sched].trig = run[Sched].trig
        BY <1>2, <3>3, FireEndsEffect
      <4> QED  BY <1>0, <1>n, <2>3, <3>1, <4>1, CallMoved
    <3> QED  BY <3>2, <3>3
  <2> QED  BY <2>2, <2>3
<1>3. CASE UpdateSwap
  <2>1. /\ run'[p].at = run[p].at /\ run'[p].trig = run[p].trig
        /\ run'[p].effective = run[p].effective /\ run'[p].saved = run[p].saved
        /\ run[p].at # "cycle" => run'[p].old = run[p].old
        /\ lock' = lock
    <3>1. lock' = lock
      BY <1>3 DEF UpdateSwap
    <3> QED  BY <1>3, <3>1, SwapEffect
  <2>2. CallFor(p)
    BY <1>0
  <2> QED  BY <2>1, <2>2 DEF CallFor, OwnTime
<1>4. CASE Crash
  <2>1. run'[p] = Idle /\ lock' = None
    BY <1>4 DEF Crash
  <2> QED  BY <1>0, <2>1, CallEnded
<1>5. CASE ManualTick
  <2>1. Goes(Tick, "begin") /\ "begin" \in Places /\ run[Tick].at = "idle" /\ lock' = lock
    BY <1>5 DEF ManualTick, Places
  <2>2. OnlyCall(Tick) /\ run'[Tick].at = "begin" /\ run'[Tick].old = run[Tick].old
    BY <1>0, <1>n, <2>1, GoesEffect
  <2>3. CASE p # Tick
    BY <1>0, <2>1, <2>2, <2>3, CallKept DEF OnlyCall
  <2>4. CASE p = Tick
    <3>1. CallFor(Tick) /\ lock # Tick
      BY <1>0, <1>n, <2>1
    <3> QED  BY <1>n, <2>1, <2>2, <2>4, <3>1 DEF CallFor, OwnTime
  <2> QED  BY <2>3, <2>4
<1>6. CASE TickEnds
  <2>1. run' = [run EXCEPT ![Tick] = Idle] /\ lock' = lock /\ run[Tick].at # "cycle"
    BY <1>6 DEF TickEnds
  <2>2. OnlyCall(Tick) /\ run'[Tick] = Idle
    BY <1>0, <1>n, <2>1, EndEffect
  <2>3. CASE p # Tick
    BY <1>0, <2>1, <2>2, <2>3, CallKept DEF OnlyCall
  <2>4. CASE p = Tick
    BY <1>0, <2>1, <2>2, <2>4, CallEnded
  <2> QED  BY <2>3, <2>4
<1>7. ASSUME NEW g \in Triggers, ManualRun(g) PROVE CallFor(p)'
  <2>1. /\ run' = [run EXCEPT ![g] = [Idle EXCEPT !.at = "begin", !.trig = Snapshot(g)]]
        /\ lock' = lock /\ run[g].at = "idle"
    BY <1>7 DEF ManualRun
  <2>2. Snapshot(g) \in Snapshots /\ Snapshot(g).id = g /\ Snapshot(g).next = row[g].next /\ g \in Runs
    BY <1>n, SnapshotType
  <2>3. OnlyCall(g) /\ run'[g].at = "begin" /\ run'[g].trig = Snapshot(g) /\ run'[g].old = None
    BY <1>0, <2>1, <2>2, BeginEffect
  <2>4. CASE p # g
    BY <1>0, <2>1, <2>3, <2>4, CallKept DEF OnlyCall
  <2>5. CASE p = g
    <3>1. OwnTime(g, row[g].next)
      BY DEF QuietInv
    <3>2. lock # g
      BY <1>0, <2>1, <2>2
    <3> QED  BY <1>n, <2>1, <2>2, <2>3, <2>5, <3>1, <3>2 DEF CallFor, OwnTime
  <2> QED  BY <2>4, <2>5
<1>8. ASSUME NEW g \in Triggers, ManualEnds(g) PROVE CallFor(p)'
  <2>1. run' = [run EXCEPT ![g] = Idle] /\ lock' = lock /\ run[g].at # "cycle" /\ g \in Runs
    BY <1>n, <1>8 DEF ManualEnds
  <2>2. OnlyCall(g) /\ run'[g] = Idle
    BY <1>0, <2>1, EndEffect
  <2>3. CASE p # g
    BY <1>0, <2>1, <2>2, <2>3, CallKept DEF OnlyCall
  <2>4. CASE p = g
    BY <1>0, <2>1, <2>2, <2>4, CallEnded
  <2> QED  BY <2>3, <2>4
<1>9. ASSUME NEW s \in scan, ScanFires(s) PROVE CallFor(p)'
  <2>1. /\ run' = [run EXCEPT ![Sched] = [Idle EXCEPT !.at = "begin", !.trig = s]]
        /\ lock' = lock /\ run[Sched].at = "idle" /\ s \in Snapshots
    BY <1>0, <1>9 DEF ScanFires, SchedFree
  <2>2. OnlyCall(Sched) /\ run'[Sched].at = "begin" /\ run'[Sched].trig = s /\ run'[Sched].old = None
    BY <1>0, <1>n, <2>1, BeginEffect
  <2>3. CASE p # Sched
    BY <1>0, <2>1, <2>2, <2>3, CallKept DEF OnlyCall
  <2>4. CASE p = Sched
    <3>1. OwnTime(s.id, s.next) /\ lock # Sched
      BY <1>0, <1>n, <2>1 DEF ScanInv
    <3> QED  BY <1>n, <2>1, <2>2, <2>4, <3>1 DEF CallFor, OwnTime
  <2> QED  BY <2>3, <2>4
<1>10. ASSUME NEW q \in Runs, RunChecks(q) PROVE CallFor(p)'
  <2>0. lock' = lock
    BY <1>10 DEF RunChecks
  <2>1. /\ OnlyCall(q) /\ run[q].at = "begin" /\ run'[q].at \in {"none", "raised", "session"}
        /\ run'[q].trig = run[q].trig /\ run'[q].old = run[q].old
        /\ run'[q].at = "session" /\ q # Tick =>
              run'[q].effective = RunModeForIntent(Intent[run[q].trig.id], mode)
    BY <1>10, ChecksEffect
  <2>2. CASE p # q
    BY <1>0, <2>0, <2>1, <2>2, CallKept DEF OnlyCall
  <2>3. CASE p = q
    <3>1. CallFor(q) /\ lock # q
      BY <1>0, <2>1
    <3> QED  BY <2>0, <2>1, <2>3, <3>1 DEF CallFor, OwnTime, RunModeForIntent
  <2> QED  BY <2>2, <2>3
<1>11. ASSUME NEW q \in Runs, RunOpensSession(q) PROVE CallFor(p)'
  <2>0. lock' = lock
    BY <1>11 DEF RunOpensSession
  <2>1. /\ OnlyCall(q) /\ run[q].at = "session" /\ run'[q].at \in {"lock", "raised"}
        /\ run'[q].trig = run[q].trig /\ run'[q].old = run[q].old
        /\ run'[q].effective = run[q].effective
    BY <1>11, OpensEffect
  <2>2. CASE p # q
    BY <1>0, <2>0, <2>1, <2>2, CallKept DEF OnlyCall
  <2>3. CASE p = q
    <3>1. CallFor(q) /\ lock # q
      BY <1>0, <2>1
    <3> QED  BY <2>0, <2>1, <2>3, <3>1 DEF CallFor, OwnTime
  <2> QED  BY <2>2, <2>3
<1>12. ASSUME NEW q \in Runs, RunBegins(q) PROVE CallFor(p)'
  <2>1. /\ OnlyCall(q) /\ run[q].at = "lock" /\ run'[q].at = "cycle"
        /\ run'[q].trig = run[q].trig /\ lock = None /\ lock' = q
    BY <1>12, BeginsEffect
  <2>2. CASE p # q
    BY <1>0, <2>1, <2>2, CallKept DEF OnlyCall
  <2>3. CASE p = q
    <3>1. CallFor(q)
      BY <1>0
    <3> QED  BY <2>1, <2>3, <3>1 DEF CallFor, OwnTime
  <2> QED  BY <2>2, <2>3
<1>13. ASSUME NEW q \in Runs, RunEnds(q) PROVE CallFor(p)'
  <2>1. /\ OnlyCall(q) /\ run[q].at = "cycle" /\ run'[q].at \in {"ran", "none", "raised"}
        /\ run'[q].trig = run[q].trig /\ lock = q /\ lock' = None
    BY <1>0, <1>13, RunEndsEffect
  <2>2. CASE p # q
    BY <1>0, <2>1, <2>2, CallKept DEF OnlyCall
  <2>3. CASE p = q
    BY <1>0, <2>1, <2>3, CallMoved
  <2> QED  BY <2>2, <2>3
<1> QED  BY <1>1, <1>2, <1>3, <1>4, <1>5, <1>6, <1>7, <1>8, <1>9, <1>10, <1>11, <1>12, <1>13, Steps
         DEF RunStep

-----------------------------------------------------------------------------
(* The scan                                                                *)

\* The clock only goes forward, and within the bound.
LEMMA ClockSteps ==
  ASSUME TypeOK, ScanInv, Next
  PROVE  now' \in Nat /\ now <= now' /\ now' <= MaxTime
<1>1. now' = now \/ (now < MaxTime /\ now' = now + 1)
  BY DEF Next, SchedStep, ClockTick, KillStopsTask, ScanBegins, SetKill, SetStatus,
         UpdateBegin, UpdateSwap, ScanPasses, EditRead, ManualRun, ManualTick, TickEnds, ScanFires,
         RunStep, RunChecks, RunOpensSession, RunBegins, RunEnds, Crash, Pause, Resume, Delete,
         EditWrite, ManualEnds, ScanSetsNext, FireHadNoCycle, FireFailed, FireRecorded, FireDeletes
<1>2. now \in Nat /\ now <= MaxTime /\ MaxTime \in Nat
  BY Names DEF TypeOK, ScanInv
<1> QED  BY <1>1, <1>2

\* The scheduler reads the table, or has one snapshot less, or none.
LEMMA ScanSteps ==
  ASSUME Next
  PROVE  \/ ScanBegins
         \/ scan' \subseteq scan /\ (scanAt' = scanAt \/ (scan' = {} /\ scanAt' = 0))
BY DEF Next, SchedStep, ClockTick, KillStopsTask, SetKill, SetStatus,
         UpdateBegin, UpdateSwap, ScanPasses, EditRead, ManualRun, ManualTick, TickEnds, ScanFires,
         RunStep, RunChecks, RunOpensSession, RunBegins, RunEnds, Crash, Pause, Resume, Delete,
         EditWrite, ManualEnds, ScanSetsNext, FireHadNoCycle, FireFailed, FireRecorded, FireDeletes,
         scanVars, ScanGoesOn, ScanAborts

\* What a scan starts with.
LEMMA ScanBeginsEffect ==
  ASSUME TypeOK, ScanBegins
  PROVE  /\ scan' = {Snapshot(g) : g \in Schedulable} /\ (scan' = {} \/ scanAt' = now)
         /\ scanAt' \in {0, now}
         /\ run' = run /\ row' = row /\ now' = now /\ run[Sched].at = "idle"
         /\ quiet' = quiet /\ extra' = extra /\ excuse' = excuse /\ stale' = stale
         /\ \A s \in scan' : /\ s.id \in Schedulable /\ s.id \in Triggers /\ s = Snapshot(s.id)
                             /\ s.next = row[s.id].next
<1>1. /\ scan' = {Snapshot(g) : g \in Schedulable} /\ (scan' = {} \/ scanAt' = now)
      /\ scanAt' \in {0, now}
      /\ run' = run /\ row' = row /\ now' = now /\ run[Sched].at = "idle"
      /\ quiet' = quiet /\ extra' = extra /\ excuse' = excuse /\ stale' = stale
  BY DEF ScanBegins, SchedFree, dbVars, history
<1>2. ASSUME NEW s \in scan'
      PROVE  /\ s.id \in Schedulable /\ s.id \in Triggers /\ s = Snapshot(s.id)
             /\ s.next = row[s.id].next
  <2>1. PICK g \in Schedulable : s = Snapshot(g)
    BY <1>1
  <2>2. g \in Triggers
    BY DEF Schedulable
  <2> QED  BY <2>1, <2>2, SnapshotType
<1> QED  BY <1>1, <1>2

\* The scheduler's call gets its trigger from a snapshot and keeps it.
LEMMA SchedSteps ==
  ASSUME TypeOK, CallInv, Next
  PROVE  \/ \E s \in scan : ScanFires(s)
         \/ run'[Sched].at = "idle"
         \/ run[Sched].at # "idle" /\ run'[Sched].trig = run[Sched].trig
<1>0. /\ run \in [Runs -> Calls] /\ Sched \in Runs /\ Tick \in Runs /\ Triggers \subseteq Runs
      /\ Sched # Tick /\ Sched \notin Triggers
  BY Names DEF TypeOK
<1>k. ASSUME run'[Sched] = run[Sched]
      PROVE  \/ run'[Sched].at = "idle"
             \/ run[Sched].at # "idle" /\ run'[Sched].trig = run[Sched].trig
  BY <1>k
<1>1. CASE Still
  BY <1>1, <1>k, StillEffect
<1>2. CASE FireEnds
  BY <1>2, FireEndsEffect, IdleCall
<1>3. CASE UpdateSwap
  BY <1>0, <1>3, SwapEffect
<1>4. CASE Crash
  BY <1>0, <1>4, IdleCall DEF Crash
<1>5. CASE ManualTick \/ TickEnds
  <2>1. run'[Sched] = run[Sched]
    BY <1>0, <1>5 DEF ManualTick, TickEnds, Goes
  <2> QED  BY <1>k, <2>1
<1>6. ASSUME NEW g \in Triggers, ManualRun(g) \/ ManualEnds(g)
      PROVE  \/ run'[Sched].at = "idle"
             \/ run[Sched].at # "idle" /\ run'[Sched].trig = run[Sched].trig
  <2>1. run'[Sched] = run[Sched]
    BY <1>0, <1>6 DEF ManualRun, ManualEnds
  <2> QED  BY <1>k, <2>1
<1>7. ASSUME NEW p \in Runs, RunStep(p)
      PROVE  \/ run'[Sched].at = "idle"
             \/ run[Sched].at # "idle" /\ run'[Sched].trig = run[Sched].trig
  <2>1. /\ OnlyCall(p) /\ run'[p].trig = run[p].trig
        /\ run[p].at \in {"begin", "session", "lock", "cycle"}
    BY <1>7, ChecksEffect, OpensEffect, BeginsEffect, RunEndsEffect DEF RunStep
  <2>2. CASE p = Sched
    BY <2>1, <2>2
  <2>3. CASE p # Sched
    BY <1>0, <1>k, <2>1, <2>3 DEF OnlyCall
  <2> QED  BY <2>2, <2>3
<1> QED  BY <1>1, <1>2, <1>3, <1>4, <1>5, <1>6, <1>7, Steps

\* What a snapshot that fires leaves.
LEMMA ScanFiresEffect ==
  ASSUME NEW s \in scan, TypeOK, ScanFires(s)
  PROVE  /\ s \in Snapshots /\ s.id \in Triggers
         /\ run' \in [Runs -> Calls] /\ OnlyCall(Sched)
         /\ run'[Sched].at = "begin" /\ run'[Sched].trig = s /\ run[Sched].at = "idle"
         /\ scan' = scan \ {s} /\ s.next # None /\ s.next \in Nat /\ s.next <= scanAt
         /\ row' = row /\ now' = now
         /\ quiet' = quiet /\ extra' = extra /\ excuse' = excuse /\ stale' = stale
         /\ lock' = lock /\ mode' = mode /\ built' = built
<1>1. /\ run \in [Runs -> Calls] /\ Sched \in Runs /\ s \in Snapshots /\ s.id \in Triggers
      /\ s.next \in Times /\ scanAt \in Nat
  BY Names DEF TypeOK, Snapshots
<1>2. /\ run' = [run EXCEPT ![Sched] = [Idle EXCEPT !.at = "begin", !.trig = s]]
      /\ run[Sched].at = "idle" /\ scan' = scan \ {s} /\ s.next # None /\ s.next <= scanAt
      /\ row' = row /\ now' = now
      /\ quiet' = quiet /\ extra' = extra /\ excuse' = excuse /\ stale' = stale
      /\ lock' = lock /\ mode' = mode /\ built' = built
  BY <1>1 DEF ScanFires, SchedFree, ScanGoesOn, IsDue, dbVars, history, modeVars
<1> QED  BY <1>1, <1>2, BeginEffect DEF Times

\* The scheduler's call never goes back to a place before its cycle.
LEMMA PlaceSteps ==
  ASSUME TypeOK, CallInv, Next, run[Sched].at \notin {"idle", "begin", "session", "lock"}
  PROVE  run'[Sched].at \notin {"begin", "session", "lock"}
<1>0. /\ run \in [Runs -> Calls] /\ Sched \in Runs /\ Tick \in Runs /\ Triggers \subseteq Runs
      /\ Sched # Tick /\ Sched \notin Triggers
  BY Names DEF TypeOK
<1>1. CASE Still
  BY <1>1, StillEffect
<1>2. CASE FireEnds
  BY <1>2, FireEndsEffect, IdleCall
<1>3. CASE UpdateSwap
  BY <1>0, <1>3, SwapEffect
<1>4. CASE Crash
  BY <1>0, <1>4, IdleCall DEF Crash
<1>5. CASE ManualTick \/ TickEnds
  BY <1>0, <1>5 DEF ManualTick, TickEnds, Goes
<1>6. ASSUME NEW g \in Triggers, ManualRun(g) \/ ManualEnds(g)
      PROVE  run'[Sched].at \notin {"begin", "session", "lock"}
  BY <1>0, <1>6 DEF ManualRun, ManualEnds
<1>7. ASSUME NEW p \in Runs, RunStep(p)
      PROVE  run'[Sched].at \notin {"begin", "session", "lock"}
  <2>1. /\ OnlyCall(p) /\ run[p].at \in {"begin", "session", "lock", "cycle"}
        /\ run[p].at = "cycle" => run'[p].at \in {"ran", "none", "raised"}
    BY <1>7, ChecksEffect, OpensEffect, BeginsEffect, RunEndsEffect DEF RunStep
  <2> QED  BY <1>0, <2>1 DEF OnlyCall
<1>8. ASSUME NEW s \in scan, ScanFires(s) PROVE FALSE
  BY <1>8, ScanFiresEffect
<1> QED  BY <1>1, <1>2, <1>3, <1>4, <1>5, <1>6, <1>7, <1>8, Steps

\* The scheduler goes on with what it read, one snapshot of each trigger and
\* none of the trigger it fires.
LEMMA ScanStep ==
  ASSUME TypeOK, CallInv, ScanInv, QuietInv, Next
  PROVE  ScanInv'
<1>0. /\ now \in Nat /\ scanAt \in Nat /\ scanAt <= now /\ scan \subseteq Snapshots
      /\ \A s, t \in scan : s.id = t.id => s = t
      /\ \A s \in scan : ~Firing(s.id) /\ OwnTime(s.id, s.next)
      /\ run[Sched].at # "idle" => run[Sched].trig.next # None /\ run[Sched].trig.next <= now
  BY DEF TypeOK, ScanInv
<1>1. now' \in Nat /\ now <= now' /\ now' <= MaxTime
  BY ClockSteps
<1>2. scanAt' <= now'
  <2>1. scanAt' \in {scanAt, 0, now}
    BY ScanSteps, ScanBeginsEffect
  <2> QED  BY <1>0, <1>1, <2>1
<1>3. run'[Sched].at # "idle" => run'[Sched].trig.next # None /\ run'[Sched].trig.next <= now'
  <2>1. CASE \E s \in scan : ScanFires(s)
    <3>1. PICK s \in scan : ScanFires(s)
      BY <2>1
    <3> QED  BY <1>0, <1>1, <3>1, ScanFiresEffect
  <2>2. CASE run[Sched].at # "idle" /\ run'[Sched].trig = run[Sched].trig
    <3>1. run[Sched].trig.next \in Nat
      BY <1>0, <2>2, FiredType DEF Times
    <3> QED  BY <1>0, <1>1, <2>2, <3>1
  <2> QED  BY <2>1, <2>2, SchedSteps
<1>4. CASE ScanBegins
  <2>1. /\ run' = run /\ run[Sched].at = "idle"
        /\ \A s \in scan' : s.id \in Triggers /\ s = Snapshot(s.id) /\ s.next = row[s.id].next
    BY <1>4, ScanBeginsEffect
  <2>2. \A s, t \in scan' : s.id = t.id => s = t
    BY <2>1
  <2>3. \A s \in scan' : ~(Firing(s.id)') /\ OwnTime(s.id, s.next)
    BY <2>1 DEF QuietInv, Firing
  <2> QED  BY <1>1, <1>2, <1>3, <2>2, <2>3 DEF ScanInv, OwnTime
<1>5. CASE scan' \subseteq scan
  <2>1. \A s, t \in scan' : s.id = t.id => s = t
    BY <1>0, <1>5
  <2>2. ASSUME NEW s \in scan' PROVE ~(Firing(s.id)') /\ OwnTime(s.id, s.next)
    <3>1. CASE \E t \in scan : ScanFires(t)
      <4>1. PICK t \in scan : ScanFires(t)
        BY <3>1
      <4>2. run'[Sched].trig = t /\ scan' = scan \ {t}
        BY <4>1, ScanFiresEffect
      <4> QED  BY <1>0, <4>2 DEF Firing
    <3>2. CASE ~\E t \in scan : ScanFires(t)
      BY <1>0, <1>5, <3>2, SchedSteps DEF Firing
    <3> QED  BY <3>1, <3>2
  <2> QED  BY <1>1, <1>2, <1>3, <2>1, <2>2 DEF ScanInv, OwnTime
<1> QED  BY <1>4, <1>5, ScanSteps

\* What the steps write as a trigger's next fire time.
LEMMA NextSteps ==
  ASSUME TypeOK, CallInv, Next, NEW g \in Triggers
  PROVE  \/ row'[g].next \in {row[g].next, None}
         \/ \E base \in Nat : row'[g].next = NextFire(g, base)
         \/ run[g].at = "ran" /\ row'[g].next = run[g].trig.next
<1>0. /\ row \in [Triggers -> Rows] /\ now \in Nat /\ scanAt \in Nat /\ run \in [Runs -> Calls]
      /\ scan \subseteq Snapshots /\ edit \in [Triggers -> {None} \cup [last : Times]]
      /\ now \in Times /\ None \in Times
  BY DEF TypeOK, Times
<1> DEFINE Goal == \/ row'[g].next \in {row[g].next, None}
                   \/ \E base \in Nat : row'[g].next = NextFire(g, base)
                   \/ run[g].at = "ran" /\ row'[g].next = run[g].trig.next
<1>s. ASSUME row' = row PROVE Goal
  BY <1>s
<1>1. ASSUME NEW h \in Triggers, Pause(h) \/ Resume(h) \/ Delete(h) PROVE Goal
  <2>1. PICK s \in {"paused", "active", "deleted"} : row' = [row EXCEPT ![h].status = s]
    BY <1>1 DEF Pause, Resume, Delete
  <2>2. row'[h].next = row[h].next /\ OnlyRow(h)
    BY <1>0, <2>1, StatusEffect
  <2> QED  BY <2>2 DEF OnlyRow
<1>2. ASSUME NEW h \in Triggers, NEW on \in BOOLEAN, EditWrite(h, on) PROVE Goal
  <2> DEFINE base == IF edit[h].last = None THEN now ELSE edit[h].last
  <2>1. base \in Nat
    <3>1. edit[h] \in [last : Times]
      BY <1>0, <1>2 DEF EditWrite
    <3> QED  BY <1>0, <3>1 DEF Times
  <2>2. NextFire(h, base) \in Times
    BY <2>1, NextFireMono DEF Times
  <2>3. row' = row \/ row' = [row EXCEPT ![h].enabled = on, ![h].next = NextFire(h, base)]
    BY <1>2 DEF EditWrite
  <2> HIDE DEF base
  <2>4. row' = row \/ (row'[h].next = NextFire(h, base) /\ OnlyRow(h))
    BY <1>0, <2>2, <2>3, EditEffect
  <2> QED  BY <2>1, <2>4 DEF OnlyRow
<1>3. ASSUME NEW h \in Triggers, ManualEnds(h) PROVE Goal
  <2>1. CASE row' # row
    <3>1. RecordFire(h, now, run[h].trig.next, None) /\ run[h].at = "ran"
      BY <1>3, <2>1 DEF ManualEnds
    <3>2. run[h].trig \in Snapshots
      BY <3>1, Names DEF CallInv, CallFor
    <3>3. run[h].trig.next \in Times
      BY <3>2 DEF Snapshots
    <3>4. OnlyRow(h) /\ row'[h].next \in {row[h].next, run[h].trig.next}
      BY <1>0, <3>1, <3>3, RecordEffect
    <3> QED  BY <3>1, <3>4 DEF OnlyRow
  <2> QED  BY <1>s, <2>1
<1>4. ASSUME NEW s \in scan, ScanSetsNext(s) PROVE Goal
  <2>1. s.id \in Triggers /\ NextFire(s.id, scanAt) \in Times
    <3>1. s.id \in Triggers
      BY <1>0 DEF Snapshots
    <3> QED  BY <1>0, <3>1, NextFireMono DEF Times
  <2>2. row' = row \/ row' = [row EXCEPT ![s.id].next = NextFire(s.id, scanAt)]
    BY <1>4 DEF ScanSetsNext, FirstFire
  <2>3. row' = row \/ (row'[s.id].next = NextFire(s.id, scanAt) /\ OnlyRow(s.id))
    BY <1>0, <2>1, <2>2, NextEffect
  <2> QED  BY <1>0, <2>3 DEF OnlyRow
<1>5. CASE FireEnds
  <2>1. Fired \in Triggers /\ run[Sched].trig.last \in Times
    BY <1>5, FireEndsEffect, FiredType
  <2>2. CASE row' # row
    <3>0. NextFire(Fired, now) \in Times
      BY <1>0, <2>1, NextFireMono DEF Times
    <3>1. \/ \E l \in Times, n \in {None, NextFire(Fired, now)}, s \in {None, "error", "exhausted"} :
               RecordFire(Fired, l, n, s)
          \/ row' = [row EXCEPT ![Fired].status = "deleted"]
      BY <1>0, <1>5, <2>1, <2>2, <3>0
         DEF FireEnds, FireHadNoCycle, FireFailed, FireRecorded, FireDeletes
    <3>2. OnlyRow(Fired) /\ row'[Fired].next \in {row[Fired].next, None, NextFire(Fired, now)}
      BY <1>0, <2>1, <3>0, <3>1, RecordEffect, StatusEffect
    <3> QED  BY <1>0, <3>2 DEF OnlyRow
  <2> QED  BY <1>s, <2>2
<1>6. \/ row' = row \/ FireEnds
      \/ \E h \in Triggers : \/ Pause(h) \/ Resume(h) \/ Delete(h) \/ ManualEnds(h)
                             \/ \E on \in BOOLEAN : EditWrite(h, on)
      \/ \E s \in scan : ScanSetsNext(s)
  BY DEF Next, SchedStep, FireEnds, ClockTick, KillStopsTask, ScanBegins, SetKill, SetStatus,
         UpdateBegin, UpdateSwap, ScanPasses, EditRead, ManualRun, ManualTick, TickEnds, ScanFires,
         RunStep, RunChecks, RunOpensSession, RunBegins, RunEnds, Crash, dbVars
<1> QED  BY <1>s, <1>1, <1>2, <1>3, <1>4, <1>5, <1>6

\* Every step keeps the times in order: a recurring trigger's next fire is
\* counted from a time that has been, a one-shot has its own.
LEMMA QuietStep ==
  ASSUME TypeOK, CallInv, ScanInv, QuietInv, Next
  PROVE  QuietInv'
<1>0. /\ now \in Nat /\ scanAt \in Nat /\ scan \subseteq Snapshots /\ now' \in Nat /\ now <= now'
      /\ quiet \in [Triggers -> Nat]
  BY ClockSteps DEF TypeOK
<1>1. ASSUME NEW g \in Triggers PROVE OwnTime(g, row'[g].next)
  <2>1. OwnTime(g, row[g].next)
    BY DEF QuietInv
  <2>2. run[g].at = "ran" => OwnTime(g, run[g].trig.next)
    <3>1. CallFor(g) /\ g # Tick
      BY Names DEF CallInv
    <3> QED  BY <3>1 DEF CallFor
  <2>3. \A base \in Nat : OwnTime(g, NextFire(g, base))
    BY DEF OwnTime, NextFire
  <2>4. OwnTime(g, None)
    BY DEF OwnTime
  <2> QED  BY <2>1, <2>2, <2>3, <2>4, NextSteps
<1>2. CASE RunBegins(Sched)
  <2>1. /\ Fired \in Triggers /\ \A g \in Triggers : g # Fired => quiet'[g] = quiet[g]
        /\ Kind[Fired] # "at" => quiet'[Fired] = NextFire(Fired, now)
    BY <1>2, FireBeginsEffect
  <2>2. now' = now /\ scan' = scan /\ scanAt' = scanAt
    BY <1>2 DEF RunBegins, scanVars
  <2>3. \A s \in scan : s.id # Fired /\ s.id \in Triggers
    <3>1. run[Sched].at # "idle"
      BY <1>2 DEF RunBegins
    <3> QED  BY <1>0, <3>1 DEF ScanInv, Firing, Fired, Snapshots
  <2>4. \A g \in Triggers : Kind[g] # "at" => quiet'[g] <= NextFire(g, now)
    <3>1. NextFire(Fired, now) <= NextFire(Fired, now)
      BY <1>0, <2>1, NextFireMono
    <3> QED  BY <2>1, <3>1 DEF QuietInv
  <2>5. \A s \in scan : Kind[s.id] # "at" => quiet'[s.id] <= NextFire(s.id, scanAt)
    BY <2>1, <2>3 DEF QuietInv
  <2> QED  BY <1>1, <2>2, <2>4, <2>5 DEF QuietInv, OwnTime, NextFire
<1>3. CASE ~RunBegins(Sched)
  <2>1. quiet' = quiet
    BY <1>3, HistorySteps
  <2>2. \A g \in Triggers : Kind[g] # "at" => quiet[g] <= NextFire(g, now')
    <3> SUFFICES ASSUME NEW g \in Triggers, Kind[g] # "at" PROVE quiet[g] <= NextFire(g, now')
      OBVIOUS
    <3>1. quiet[g] <= NextFire(g, now) /\ quiet[g] \in Nat
      BY <1>0 DEF QuietInv
    <3>2. /\ NextFire(g, now) \in Nat /\ NextFire(g, now') \in Nat
          /\ NextFire(g, now) <= NextFire(g, now')
      BY <1>0, NextFireMono
    <3> QED  BY <3>1, <3>2
  <2>3. \A s \in scan' : Kind[s.id] # "at" => quiet[s.id] <= NextFire(s.id, scanAt')
    <3>1. CASE ScanBegins
      BY <3>1, ScanBeginsEffect DEF QuietInv
    <3>2. CASE scan' \subseteq scan /\ (scanAt' = scanAt \/ scan' = {})
      BY <3>2 DEF QuietInv
    <3> QED  BY <3>1, <3>2, ScanSteps
  <2>4. \A g \in Triggers : NextFire(g, now)' = NextFire(g, now')
    BY DEF NextFire
  <2>5. \A s \in scan' : NextFire(s.id, scanAt)' = NextFire(s.id, scanAt')
    BY DEF NextFire
  <2> QED  BY <1>1, <2>1, <2>2, <2>3, <2>4, <2>5 DEF QuietInv, OwnTime
<1> QED  BY <1>2, <1>3

-----------------------------------------------------------------------------
(* Fires of what is switched off                                           *)

\* Who can be read by the next scan.
LEMMA Readable ==
  ASSUME NEW g \in Triggers
  PROVE  /\ g \in Schedulable <=> (row[g].status = "active" /\ row[g].enabled)
         /\ g \in Schedulable' <=> (row'[g].status = "active" /\ row'[g].enabled)
BY DEF Schedulable

\* Only people switch a trigger on.
LEMMA OnSteps ==
  ASSUME TypeOK, CallInv, Next, NEW g \in Triggers
  PROVE  \/ /\ row'[g].status \in {row[g].status, "paused", "deleted", "error", "exhausted"}
            /\ row'[g].enabled = row[g].enabled
         \/ Resume(g) \/ \E on \in BOOLEAN : EditWrite(g, on)
<1>0. /\ row \in [Triggers -> Rows] /\ now \in Nat /\ scanAt \in Nat /\ run \in [Runs -> Calls]
      /\ scan \subseteq Snapshots /\ edit \in [Triggers -> {None} \cup [last : Times]]
      /\ now \in Times /\ None \in Times
  BY DEF TypeOK, Times
<1> DEFINE Goal == \/ /\ row'[g].status \in {row[g].status, "paused", "deleted", "error", "exhausted"}
                      /\ row'[g].enabled = row[g].enabled
                   \/ Resume(g) \/ \E on \in BOOLEAN : EditWrite(g, on)
<1>s. ASSUME row' = row PROVE Goal
  BY <1>s
<1>o. ASSUME NEW h \in Triggers, OnlyRow(h), h # g PROVE Goal
  BY <1>o DEF OnlyRow
<1>1. ASSUME NEW h \in Triggers, Pause(h) \/ Resume(h) \/ Delete(h) PROVE Goal
  <2>1. PICK s \in {"paused", "active", "deleted"} :
          row' = [row EXCEPT ![h].status = s] /\ (s = "active" => Resume(h))
    BY <1>1 DEF Pause, Resume, Delete
  <2>2. row'[h].status = s /\ row'[h].enabled = row[h].enabled /\ OnlyRow(h)
    BY <1>0, <2>1, StatusEffect
  <2> QED  BY <1>o, <2>1, <2>2
<1>2. ASSUME NEW h \in Triggers, NEW on \in BOOLEAN, EditWrite(h, on) PROVE Goal
  <2>1. CASE h = g
    BY <1>2, <2>1
  <2>2. CASE h # g
    <3>1. OnlyRow(h)
      BY <1>0, <1>2 DEF EditWrite, OnlyRow
    <3> QED  BY <1>o, <2>2, <3>1
  <2> QED  BY <2>1, <2>2
<1>3. ASSUME NEW h \in Triggers, ManualEnds(h) PROVE Goal
  <2>1. CASE row' # row
    <3>1. RecordFire(h, now, run[h].trig.next, None) /\ run[h].at = "ran"
      BY <1>3, <2>1 DEF ManualEnds
    <3>2. run[h].trig \in Snapshots
      BY <3>1, Names DEF CallInv, CallFor
    <3>3. run[h].trig.next \in Times
      BY <3>2 DEF Snapshots
    <3>4. OnlyRow(h) /\ row'[h].status = row[h].status /\ row'[h].enabled = row[h].enabled
      BY <1>0, <3>1, <3>3, RecordEffect
    <3> QED  BY <1>o, <3>4
  <2> QED  BY <1>s, <2>1
<1>4. ASSUME NEW s \in scan, ScanSetsNext(s) PROVE Goal
  <2>1. s.id \in Triggers /\ NextFire(s.id, scanAt) \in Times
    <3>1. s.id \in Triggers
      BY <1>0 DEF Snapshots
    <3> QED  BY <1>0, <3>1, NextFireMono DEF Times
  <2>2. row' = row \/ row' = [row EXCEPT ![s.id].next = NextFire(s.id, scanAt)]
    BY <1>4 DEF ScanSetsNext, FirstFire
  <2>3. \/ row' = row
        \/ /\ OnlyRow(s.id) /\ row'[s.id].status = row[s.id].status
           /\ row'[s.id].enabled = row[s.id].enabled
    BY <1>0, <2>1, <2>2, NextEffect
  <2> QED  BY <1>s, <1>o, <2>1, <2>3
<1>5. CASE FireEnds
  <2>1. Fired \in Triggers /\ run[Sched].trig.last \in Times
    BY <1>5, FireEndsEffect, FiredType
  <2>2. CASE row' # row
    <3>0. NextFire(Fired, now) \in Times
      BY <1>0, <2>1, NextFireMono DEF Times
    <3>1. \/ \E l \in Times, n \in {None, NextFire(Fired, now)}, s \in {None, "error", "exhausted"} :
               RecordFire(Fired, l, n, s)
          \/ row' = [row EXCEPT ![Fired].status = "deleted"]
      BY <1>0, <1>5, <2>1, <2>2, <3>0
         DEF FireEnds, FireHadNoCycle, FireFailed, FireRecorded, FireDeletes
    <3>2. /\ OnlyRow(Fired) /\ row'[Fired].enabled = row[Fired].enabled
          /\ row'[Fired].status \in {row[Fired].status, "deleted", "error", "exhausted"}
      BY <1>0, <2>1, <2>2, <3>0, <3>1, RecordEffect, StatusEffect
    <3> QED  BY <1>o, <2>1, <3>2
  <2> QED  BY <1>s, <2>2
<1>6. \/ row' = row \/ FireEnds
      \/ \E h \in Triggers : \/ Pause(h) \/ Resume(h) \/ Delete(h) \/ ManualEnds(h)
                             \/ \E on \in BOOLEAN : EditWrite(h, on)
      \/ \E s \in scan : ScanSetsNext(s)
  BY DEF Next, SchedStep, FireEnds, ClockTick, KillStopsTask, ScanBegins, SetKill, SetStatus,
         UpdateBegin, UpdateSwap, ScanPasses, EditRead, ManualRun, ManualTick, TickEnds, ScanFires,
         RunStep, RunChecks, RunOpensSession, RunBegins, RunEnds, Crash, dbVars
<1> QED  BY <1>s, <1>1, <1>2, <1>3, <1>4, <1>5, <1>6

\* People who switch a trigger on forgive the fires it had while it was off.
LEMMA OnForgives ==
  ASSUME TypeOK, CallInv, Next, NEW g \in Triggers, g \in Schedulable', g \notin Schedulable
  PROVE  stale'[g] = 0
<1>0. row \in [Triggers -> Rows] /\ stale \in [Triggers -> Nat]
  BY DEF TypeOK
<1>1. row'[g].status = "active" /\ row'[g].enabled /\ ~(row[g].status = "active" /\ row[g].enabled)
  BY Readable
<1>2. CASE Resume(g)
  <2>1. row' = [row EXCEPT ![g].status = "active"]
    BY <1>2 DEF Resume
  <2>2. row'[g].enabled = row[g].enabled
    BY <1>0, <2>1, StatusEffect
  <2>3. stale' = IF row[g].enabled THEN [stale EXCEPT ![g] = 0] ELSE stale
    BY <1>2 DEF Resume
  <2> QED  BY <1>0, <1>1, <2>2, <2>3
<1>3. ASSUME NEW on \in BOOLEAN, EditWrite(g, on) PROVE stale'[g] = 0
  <2>1. Exists(g)
    BY <1>1, <1>3 DEF EditWrite
  <2> DEFINE n == NextFire(g, IF edit[g].last = None THEN now ELSE edit[g].last)
  <2>2. row' = [row EXCEPT ![g].enabled = on, ![g].next = n]
    BY <1>3, <2>1 DEF EditWrite
  <2>3. stale' = IF on /\ row[g].status = "active" THEN [stale EXCEPT ![g] = 0] ELSE stale
    BY <1>3, <2>1 DEF EditWrite
  <2> HIDE DEF n
  <2>4. row'[g].status = row[g].status /\ (row'[g].enabled <=> on)
    <3>1. PICK r \in Rows : r = row[g]
      BY <1>0
    <3>2. row'[g] = [[r EXCEPT !.enabled = on] EXCEPT !.next = n]
      BY <1>0, <2>2, <3>1
    <3> QED  BY <3>1, <3>2 DEF Rows
  <2> QED  BY <1>0, <1>1, <2>3, <2>4
<1> QED  BY <1>1, <1>2, <1>3, OnSteps

\* A trigger is fired at most once after it was switched off.
LEMMA StaleStep ==
  ASSUME TypeOK, CallInv, ScanInv, StaleInv, Next
  PROVE  StaleInv'
<1>0. stale \in [Triggers -> Nat] /\ scan \subseteq Snapshots
  BY DEF TypeOK
<1> SUFFICES ASSUME NEW g \in Triggers
             PROVE  /\ stale'[g] <= 1
                    /\ stale'[g] # 0 =>
                         /\ g \notin Schedulable'
                         /\ \A s \in scan' : s.id # g
                         /\ run'[Sched].at \in {"begin", "session", "lock"} => ~(Firing(g)')
  BY DEF StaleInv
<1>1. CASE RunBegins(Sched)
  <2>1. /\ Fired \in Triggers /\ \A h \in Triggers : h # Fired => stale'[h] = stale[h]
        /\ stale'[Fired] = IF SwitchedOff(Fired) THEN stale[Fired] + 1 ELSE stale[Fired]
    BY <1>1, FireBeginsEffect
  <2>2. /\ row' = row /\ scan' = scan /\ run[Sched].at = "lock" /\ run'[Sched].at = "cycle"
    BY <1>1, BeginsEffect, Names DEF RunBegins, dbVars, scanVars
  <2>3. g \in Schedulable' <=> g \in Schedulable
    BY <2>2, Readable
  <2>4. CASE g # Fired
    BY <2>1, <2>2, <2>3, <2>4 DEF StaleInv
  <2>5. CASE g = Fired
    <3>1. stale[g] = 0
      BY <2>2, <2>5 DEF StaleInv, Firing, Fired
    <3>2. \A s \in scan : s.id # g
      BY <2>2, <2>5 DEF ScanInv, Firing, Fired
    <3>3. stale'[g] # 0 => g \notin Schedulable
      BY <2>1, <2>5, <3>1, Readable DEF SwitchedOff
    <3>4. stale'[g] <= 1
      BY <2>1, <2>5, <3>1
    <3> QED  BY <2>2, <2>3, <3>2, <3>3, <3>4
  <2> QED  BY <2>4, <2>5
<1>2. CASE ~RunBegins(Sched)
  <2>1. stale'[g] = stale[g] \/ stale'[g] = 0
    <3>1. stale' = stale \/ \E h \in Triggers : stale' = [stale EXCEPT ![h] = 0]
      BY <1>2, HistorySteps
    <3> QED  BY <1>0, <3>1
  <2>2. stale'[g] <= 1
    BY <1>0, <2>1 DEF StaleInv
  <2>3. ASSUME stale'[g] # 0
        PROVE  /\ g \notin Schedulable'
               /\ \A s \in scan' : s.id # g
               /\ run'[Sched].at \in {"begin", "session", "lock"} => ~(Firing(g)')
    <3>1. /\ stale[g] # 0 /\ g \notin Schedulable /\ \A s \in scan : s.id # g
          /\ run[Sched].at \in {"begin", "session", "lock"} => ~Firing(g)
      BY <2>1, <2>3 DEF StaleInv
    <3>2. g \notin Schedulable'
      BY <2>3, <3>1, OnForgives
    <3>3. \A s \in scan' : s.id # g
      BY <3>1, ScanSteps, ScanBeginsEffect
    <3>4. ASSUME run'[Sched].at \in {"begin", "session", "lock"}, Firing(g)' PROVE FALSE
      <4>1. CASE \E s \in scan : ScanFires(s)
        BY <3>1, <3>4, <4>1, ScanFiresEffect DEF Firing
      <4>2. CASE run[Sched].at # "idle" /\ run'[Sched].trig = run[Sched].trig
        <5>1. Firing(g) /\ run[Sched].at \notin {"begin", "session", "lock"}
          BY <3>1, <3>4, <4>2 DEF Firing
        <5>2. run'[Sched].at \notin {"begin", "session", "lock"}
          BY <4>2, <5>1, PlaceSteps
        <5> QED  BY <3>4, <5>2
      <4> QED  BY <3>4, <4>1, <4>2, SchedSteps
    <3> QED  BY <3>2, <3>3, <3>4
  <2> QED  BY <2>2, <2>3
<1> QED  BY <1>1, <1>2

-----------------------------------------------------------------------------
(* Fires before their time                                                 *)

\* What a row says of the next step's early fires, when what the scheduler
\* owes stays.
LEMMA EarlyRow ==
  ASSUME NEW g \in Triggers, quiet' = quiet
  PROVE  /\ RowEarly(g)' <=> /\ row'[g].status # "deleted" /\ Early(g, row'[g].next)
                             /\ Kind[g] = "at" => row'[g].status = "active"
         /\ RowEarly(g) <=> /\ row[g].status # "deleted" /\ Early(g, row[g].next)
                            /\ Kind[g] = "at" => row[g].status = "active"
         /\ row'[g] = row[g] => (RowEarly(g)' <=> RowEarly(g))
BY DEF RowEarly, Early, Exists

\* A one-shot's fire is early whatever its row says.
LEMMA EarlyOneShot ==
  ASSUME NEW g \in Triggers, NEW m, NEW n, Kind[g] = "at"
  PROVE  Early(g, m) <=> Early(g, n)
BY DEF Early

\* The record of a fire leaves an early row only when it was lost, or when a
\* one-shot had no cycle.
LEMMA FireWrites ==
  ASSUME TypeOK, CallInv, QuietInv, FireHadNoCycle \/ FireFailed \/ FireRecorded,
         NEW g \in Triggers, g = Fired, RowEarly(g)'
  PROVE  \/ Excuse(g)
         \/ FireHadNoCycle /\ Kind[g] = "at" /\ RowEarly(g)
<1>0. /\ row \in [Triggers -> Rows] /\ now \in Nat /\ now \in Times /\ None \in Times
      /\ quiet \in [Triggers -> Nat]
      /\ run[Sched].trig.last \in Times
  <2>1. run[Sched].at # "idle"
    BY DEF FireHadNoCycle, FireFailed, FireRecorded
  <2> QED  BY <2>1, FiredType DEF TypeOK, Times
<1>1. NextFire(g, now) \in Times /\ NextFire(g, now) \in Nat
  BY <1>0, NextFireMono DEF Times
<1>2. quiet' = quiet
  BY DEF FireHadNoCycle, FireFailed, FireRecorded, history
<1>3. \/ Excuse(g)
      \/ \E l \in Times, s \in {None, "error", "exhausted"} :
           /\ RecordFire(g, l, NextFire(g, now), s)
           /\ Kind[g] = "at" => (s = "error" \/ (s = None /\ FireHadNoCycle))
      \/ \E l \in Times : RecordFire(g, l, None, "exhausted") /\ Kind[g] = "at"
  <2>1. \/ Excuse(g)
        \/ /\ FireHadNoCycle
           /\ RecordFire(g, IF run[Sched].trig.last = None THEN now ELSE run[Sched].trig.last,
                         NextFire(g, now), None)
        \/ RecordFire(g, now, NextFire(g, now), "error")
        \/ RecordFire(g, now, None, "exhausted") /\ Kind[g] = "at"
        \/ RecordFire(g, now, NextFire(g, now), None) /\ Kind[g] # "at"
    BY DEF FireHadNoCycle, FireFailed, FireRecorded
  <2> QED  BY <1>0, <2>1
<1> SUFFICES ASSUME ~Excuse(g) PROVE FireHadNoCycle /\ Kind[g] = "at" /\ RowEarly(g)
  OBVIOUS
<1>4. Exists(g)
  <2> SUFFICES ASSUME ~Exists(g) PROVE FALSE
    OBVIOUS
  <2>1. row' = row
    BY <1>3 DEF RecordFire
  <2> QED  BY <1>0, <1>2, <2>1, EarlyRow DEF Exists
<1>6. CASE \E l \in Times : RecordFire(g, l, None, "exhausted") /\ Kind[g] = "at"
  <2>1. row'[g].status = "exhausted"
    BY <1>0, <1>4, <1>6, RecordEffect, Names
  <2> QED  BY <1>0, <1>2, <1>6, <2>1, EarlyRow
<1>7. ASSUME NEW l \in Times, NEW s \in {None, "error", "exhausted"},
             RecordFire(g, l, NextFire(g, now), s),
             Kind[g] = "at" => (s = "error" \/ (s = None /\ FireHadNoCycle))
      PROVE  FireHadNoCycle /\ Kind[g] = "at" /\ RowEarly(g)
  <2>1. /\ row'[g].next = NextFire(g, now)
        /\ row'[g].status = IF s = None THEN row[g].status ELSE s
    BY <1>0, <1>1, <1>4, <1>7, RecordEffect
  <2>2. CASE Kind[g] # "at"
    <3>1. quiet[g] <= NextFire(g, now) /\ quiet[g] \in Nat
      BY <1>0, <2>2 DEF QuietInv
    <3>2. ~Early(g, NextFire(g, now))
      BY <1>1, <2>2, <3>1 DEF Early
    <3> QED  BY <1>0, <1>2, <2>1, <3>2, EarlyRow
  <2>3. CASE Kind[g] = "at"
    <3>1. s = None /\ FireHadNoCycle /\ row[g].status = "active"
      BY <1>0, <1>2, <1>7, <2>1, <2>3, EarlyRow, Names
    <3>2. Early(g, row[g].next)
      BY <1>0, <1>2, <2>3, EarlyRow, EarlyOneShot
    <3> QED  BY <1>0, <1>2, <2>3, <3>1, <3>2, EarlyRow
  <2> QED  BY <2>2, <2>3
<1> QED  BY <1>3, <1>6, <1>7

\* A row that becomes early has an excuse for it.
LEMMA RowEarlySteps ==
  ASSUME TypeOK, CallInv, ScanInv, QuietInv, Next, ~RunBegins(Sched),
         NEW g \in Triggers, RowEarly(g)'
  PROVE  RowEarly(g) \/ excuse'[g] = excuse[g] + 1
<1>0. /\ row \in [Triggers -> Rows] /\ now \in Nat /\ scanAt \in Nat /\ run \in [Runs -> Calls]
      /\ scan \subseteq Snapshots /\ edit \in [Triggers -> {None} \cup [last : Times]]
      /\ now \in Times /\ None \in Times /\ quiet \in [Triggers -> Nat]
      /\ excuse \in [Triggers -> Nat]
  BY DEF TypeOK, Times
<1>q. quiet' = quiet
  BY HistorySteps
<1> DEFINE Goal == RowEarly(g) \/ excuse'[g] = excuse[g] + 1
<1>s. ASSUME row'[g] = row[g] PROVE Goal
  BY <1>q, <1>s, EarlyRow
<1>o. ASSUME NEW h \in Triggers, OnlyRow(h), h # g PROVE Goal
  BY <1>s, <1>o DEF OnlyRow
<1>x. ASSUME Excuse(g) PROVE Goal
  BY <1>0, <1>x, OneMore
<1>w. ASSUME NEW n \in Times, row'[g].next = n, row'[g].status = row[g].status,
             ExcuseIf(g, BringsForward(g, n))
      PROVE  Goal
  <2>1. CASE Kind[g] = "at"
    BY <1>q, <1>w, <2>1, EarlyRow, EarlyOneShot
  <2>2. CASE Kind[g] # "at" /\ ~RowEarly(g)
    <3>1. n # None /\ n < quiet[g] /\ row[g].status # "deleted" /\ ~Early(g, row[g].next)
      BY <1>q, <1>w, <2>2, EarlyRow DEF Early
    <3>2. row[g].next = None \/ ~(row[g].next < quiet[g])
      BY <2>2, <3>1 DEF Early
    <3>3. row[g].next \in Times /\ n \in Nat /\ quiet[g] \in Nat
      <4>1. row[g] \in Rows
        BY <1>0
      <4> QED  BY <1>0, <3>1, <4>1 DEF Rows, Times
    <3>4. BringsForward(g, n)
      BY <3>1, <3>2, <3>3 DEF BringsForward, Times
    <3> QED  BY <1>w, <1>x, <3>4 DEF ExcuseIf
  <2> QED  BY <2>1, <2>2
<1>1. ASSUME NEW h \in Triggers, Pause(h) \/ Delete(h) PROVE Goal
  <2>1. PICK s \in {"paused", "deleted"} : row' = [row EXCEPT ![h].status = s]
    BY <1>1 DEF Pause, Delete
  <2>2. row'[h].status = s /\ row'[h].next = row[h].next /\ OnlyRow(h)
    BY <1>0, <2>1, StatusEffect
  <2>3. row[h].status # "deleted"
    BY <1>1 DEF Pause, Delete, Exists
  <2>4. CASE h = g
    BY <1>q, <2>2, <2>3, <2>4, EarlyRow
  <2> QED  BY <1>o, <2>2, <2>4
<1>2. ASSUME NEW h \in Triggers, Resume(h) PROVE Goal
  <2>1. row' = [row EXCEPT ![h].status = "active"] /\ row[h].status # "deleted"
    BY <1>2 DEF Resume, Exists
  <2>2. row'[h].status = "active" /\ row'[h].next = row[h].next /\ OnlyRow(h)
    BY <1>0, <2>1, StatusEffect
  <2>3. CASE h = g
    <3>1. ExcuseIf(g, Kind[g] = "at" /\ row[g].status # "active")
      BY <1>2, <2>3 DEF Resume
    <3>2. CASE Kind[g] = "at" /\ row[g].status # "active"
      BY <1>x, <3>1, <3>2 DEF ExcuseIf
    <3>3. CASE ~(Kind[g] = "at" /\ row[g].status # "active")
      BY <1>q, <2>1, <2>2, <2>3, <3>3, EarlyRow
    <3> QED  BY <3>2, <3>3
  <2> QED  BY <1>o, <2>2, <2>3
<1>3. ASSUME NEW h \in Triggers, NEW on \in BOOLEAN, EditWrite(h, on) PROVE Goal
  <2> DEFINE base == IF edit[h].last = None THEN now ELSE edit[h].last
             n == NextFire(h, base)
  <2>1. n \in Times
    <3>1. edit[h] \in [last : Times]
      BY <1>0, <1>3 DEF EditWrite
    <3>2. base \in Nat
      BY <1>0, <3>1 DEF Times
    <3> QED  BY <3>2, NextFireMono DEF Times
  <2>2. \/ row' = row
        \/ row' = [row EXCEPT ![h].enabled = on, ![h].next = n] /\ ExcuseIf(h, BringsForward(h, n))
    BY <1>3 DEF EditWrite
  <2> HIDE DEF n
  <2>3. \/ row' = row
        \/ /\ OnlyRow(h) /\ row'[h].next = n /\ row'[h].status = row[h].status
           /\ ExcuseIf(h, BringsForward(h, n))
    BY <1>0, <2>1, <2>2, EditEffect
  <2> QED  BY <1>s, <1>o, <1>w, <2>1, <2>3
<1>4. ASSUME NEW h \in Triggers, ManualEnds(h) PROVE Goal
  <2>1. CASE row' # row
    <3>1. /\ RecordFire(h, now, run[h].trig.next, None) /\ run[h].at = "ran"
          /\ ExcuseIf(h, BringsForward(h, run[h].trig.next))
      BY <1>4, <2>1 DEF ManualEnds
    <3>2. run[h].trig \in Snapshots
      BY <3>1, Names DEF CallInv, CallFor
    <3>3. run[h].trig.next \in Times
      BY <3>2 DEF Snapshots
    <3>4. Exists(h)
      BY <2>1, <3>1 DEF RecordFire
    <3>5. OnlyRow(h) /\ row'[h].next = run[h].trig.next /\ row'[h].status = row[h].status
      BY <1>0, <3>1, <3>3, <3>4, RecordEffect
    <3> QED  BY <1>o, <1>w, <3>1, <3>3, <3>5
  <2> QED  BY <1>s, <2>1
<1>5. ASSUME NEW s \in scan, ScanSetsNext(s) PROVE Goal
  <2>1. s.id \in Triggers /\ NextFire(s.id, scanAt) \in Nat
    <3>1. s.id \in Triggers
      BY <1>0 DEF Snapshots
    <3> QED  BY <1>0, <3>1, NextFireMono
  <2>2. row' = row \/ row' = [row EXCEPT ![s.id].next = NextFire(s.id, scanAt)]
    BY <1>5 DEF ScanSetsNext, FirstFire
  <2>3. \/ row' = row
        \/ /\ OnlyRow(s.id) /\ row'[s.id].status = row[s.id].status
           /\ row'[s.id].next = NextFire(s.id, scanAt)
    BY <1>0, <2>1, <2>2, NextEffect DEF Times
  <2>4. CASE s.id = g /\ row' # row /\ Kind[g] = "at"
    BY <1>q, <2>3, <2>4, EarlyRow, EarlyOneShot
  <2>5. CASE s.id = g /\ row' # row /\ Kind[g] # "at"
    <3>1. quiet[g] <= NextFire(g, scanAt) /\ quiet[g] \in Nat
      BY <1>0, <2>5 DEF QuietInv
    <3>2. ~Early(g, NextFire(g, scanAt))
      BY <2>1, <2>5, <3>1 DEF Early
    <3> QED  BY <1>q, <2>3, <2>5, <3>2, EarlyRow
  <2> QED  BY <1>s, <1>o, <2>1, <2>3, <2>4, <2>5
<1>6. CASE FireHadNoCycle \/ FireFailed \/ FireRecorded
  <2>0. run[Sched].at # "idle"
    BY <1>6 DEF FireHadNoCycle, FireFailed, FireRecorded
  <2>1. Fired \in Triggers /\ run[Sched].trig.last \in Times
    BY <2>0, FiredType
  <2>2. CASE Fired = g
    <3> QED  BY <1>6, <1>x, <2>2, FireWrites
  <2>3. CASE Fired # g
    <3>1. row'[g] = row[g]
      BY <1>0, <1>6, <2>1, <2>3 DEF FireHadNoCycle, FireFailed, FireRecorded, RecordFire
    <3> QED  BY <1>s, <3>1
  <2> QED  BY <2>2, <2>3
<1>7. CASE FireDeletes
  <2>0. run[Sched].at # "idle"
    BY <1>7 DEF FireDeletes
  <2>1. Fired \in Triggers
    BY <2>0, FiredType
  <2>2. row' = row \/ row' = [row EXCEPT ![Fired].status = "deleted"]
    BY <1>7 DEF FireDeletes
  <2>3. row' = row \/ (OnlyRow(Fired) /\ row'[Fired].status = "deleted")
    BY <1>0, <2>1, <2>2, StatusEffect
  <2>4. CASE Fired = g /\ row' # row
    BY <1>q, <2>3, <2>4, EarlyRow
  <2> QED  BY <1>s, <1>o, <2>1, <2>3, <2>4
<1>8. \/ row' = row \/ FireHadNoCycle \/ FireFailed \/ FireRecorded \/ FireDeletes
      \/ \E h \in Triggers : \/ Pause(h) \/ Resume(h) \/ Delete(h) \/ ManualEnds(h)
                             \/ \E on \in BOOLEAN : EditWrite(h, on)
      \/ \E s \in scan : ScanSetsNext(s)
  BY DEF Next, SchedStep, ClockTick, KillStopsTask, ScanBegins, SetKill, SetStatus,
         UpdateBegin, UpdateSwap, ScanPasses, EditRead, ManualRun, ManualTick, TickEnds, ScanFires,
         RunStep, RunChecks, RunOpensSession, RunBegins, RunEnds, Crash, dbVars
<1> QED  BY <1>s, <1>1, <1>2, <1>3, <1>4, <1>5, <1>6, <1>7, <1>8

\* The scheduler hears of no cycle when the task's checks refused one, or when
\* the worker it finds after the cycle never began one.
LEMMA NoneSteps ==
  ASSUME TypeOK, CallInv, Next, run'[Sched].at = "none"
  PROVE  \/ run[Sched].at \in {"none", "begin"}
         \/ RunEnds(Sched) /\ ~lastRunId
<1>0. /\ run \in [Runs -> Calls] /\ Sched \in Runs /\ Tick \in Runs /\ Triggers \subseteq Runs
      /\ Sched # Tick /\ Sched \notin Triggers
  BY Names DEF TypeOK
<1>1. CASE Still
  BY <1>1, StillEffect
<1>2. CASE FireEnds
  BY <1>2, FireEndsEffect, IdleCall
<1>3. CASE UpdateSwap
  BY <1>0, <1>3, SwapEffect
<1>4. CASE Crash
  BY <1>0, <1>4, IdleCall DEF Crash
<1>5. CASE ManualTick \/ TickEnds
  BY <1>0, <1>5 DEF ManualTick, TickEnds, Goes
<1>6. ASSUME NEW g \in Triggers, ManualRun(g) \/ ManualEnds(g)
      PROVE  run[Sched].at = "none"
  BY <1>0, <1>6 DEF ManualRun, ManualEnds
<1>7. ASSUME NEW p \in Runs, RunStep(p)
      PROVE  run[Sched].at \in {"none", "begin"} \/ (RunEnds(Sched) /\ ~lastRunId)
  <2>1. CASE p # Sched
    <3>1. OnlyCall(p)
      BY <1>7, ChecksEffect, OpensEffect, BeginsEffect, RunEndsEffect DEF RunStep
    <3> QED  BY <1>0, <2>1, <3>1 DEF OnlyCall
  <2>2. CASE p = Sched
    BY <1>0, <1>7, <2>2, ChecksEffect, OpensEffect, BeginsEffect, RunEndsEffect DEF RunStep
  <2> QED  BY <2>1, <2>2
<1>8. ASSUME NEW s \in scan, ScanFires(s) PROVE FALSE
  BY <1>8, ScanFiresEffect
<1> QED  BY <1>1, <1>2, <1>3, <1>4, <1>5, <1>6, <1>7, <1>8, Steps

\* A fire that had its cycle, or was told that it had none, ends with a record
\* or with the process.
LEMMA EndingSteps ==
  ASSUME TypeOK, CallInv, Next, run[Sched].at \in {"cycle", "ran", "none", "raised"}
  PROVE  \/ run'[Sched].at \in {"cycle", "ran", "none", "raised"} /\ run'[Sched].trig = run[Sched].trig
         \/ FireHadNoCycle \/ FireFailed \/ FireRecorded \/ Crash
<1>0. /\ run \in [Runs -> Calls] /\ Sched \in Runs /\ Tick \in Runs /\ Triggers \subseteq Runs
      /\ Sched # Tick /\ Sched \notin Triggers
  BY Names DEF TypeOK
<1> DEFINE Goal == \/ run'[Sched].at \in {"cycle", "ran", "none", "raised"}
                      /\ run'[Sched].trig = run[Sched].trig
                   \/ FireHadNoCycle \/ FireFailed \/ FireRecorded \/ Crash
<1>s. ASSUME run'[Sched] = run[Sched] PROVE Goal
  BY <1>s
<1>1. CASE Still
  BY <1>1, <1>s, StillEffect
<1>2. CASE FireEnds
  BY <1>2 DEF FireEnds, FireDeletes
<1>3. CASE UpdateSwap
  BY <1>0, <1>3, SwapEffect
<1>5. CASE ManualTick \/ TickEnds
  <2>1. run'[Sched] = run[Sched]
    BY <1>0, <1>5 DEF ManualTick, TickEnds, Goes
  <2> QED  BY <1>s, <2>1
<1>6. ASSUME NEW g \in Triggers, ManualRun(g) \/ ManualEnds(g) PROVE Goal
  <2>1. run'[Sched] = run[Sched]
    BY <1>0, <1>6 DEF ManualRun, ManualEnds
  <2> QED  BY <1>s, <2>1
<1>7. ASSUME NEW p \in Runs, RunStep(p) PROVE Goal
  <2>1. CASE p # Sched
    <3>1. OnlyCall(p)
      BY <1>7, ChecksEffect, OpensEffect, BeginsEffect, RunEndsEffect DEF RunStep
    <3> QED  BY <1>0, <1>s, <2>1, <3>1 DEF OnlyCall
  <2>2. CASE p = Sched
    BY <1>0, <1>7, <2>2, ChecksEffect, OpensEffect, BeginsEffect, RunEndsEffect DEF RunStep
  <2> QED  BY <2>1, <2>2
<1>8. ASSUME NEW s \in scan, ScanFires(s) PROVE FALSE
  BY <1>8, ScanFiresEffect
<1> QED  BY <1>1, <1>2, <1>3, <1>5, <1>6, <1>7, <1>8, Steps

\* A trigger that may fire early has an excuse for it.
LEMMA EarlySteps ==
  ASSUME TypeOK, CallInv, ScanInv, QuietInv, Next, ~RunBegins(Sched),
         NEW g \in Triggers, MayFireEarly(g)'
  PROVE  MayFireEarly(g) \/ excuse'[g] = excuse[g] + 1
<1>q. quiet' = quiet /\ excuse \in [Triggers -> Nat]
  BY HistorySteps DEF TypeOK
<1>e. \A n : Early(g, n)' <=> Early(g, n)
  BY <1>q DEF Early
<1>f. /\ Corrected(g)' <=> /\ run'[Sched].at \in {"cycle", "ran", "none", "raised"}
                           /\ run'[Sched].trig.id = g
      /\ FireEarly(g)' <=> /\ run'[Sched].at \in {"begin", "session", "lock", "none"}
                           /\ run'[Sched].trig.id = g
                           /\ run'[Sched].at = "none" => Kind[g] = "at"
                           /\ Early(g, run'[Sched].trig.next)
      /\ ScanEarly(g)' <=> \E s \in scan' : s.id = g /\ Early(g, s.next)
  <2>1. /\ Firing(g)' <=> run'[Sched].at # "idle" /\ run'[Sched].trig.id = g
    BY DEF Firing
  <2>2. /\ ScanEarly(g)' <=> \E s \in scan' : s.id = g /\ Early(g, s.next)
    BY <1>q DEF ScanEarly, Early
  <2>3. FireEarly(g)' <=> /\ run'[Sched].at \in {"begin", "session", "lock", "none"}
                          /\ run'[Sched].trig.id = g
                          /\ run'[Sched].at = "none" => Kind[g] = "at"
                          /\ Early(g, run'[Sched].trig.next)
    BY <1>q DEF FireEarly, Firing, Early
  <2>4. Corrected(g)' <=> /\ run'[Sched].at \in {"cycle", "ran", "none", "raised"}
                          /\ run'[Sched].trig.id = g
    BY DEF Corrected, Firing
  <2> QED  BY <2>2, <2>3, <2>4
<1>1. ASSUME ScanEarly(g)' PROVE MayFireEarly(g)
  <2>1. PICK s \in scan' : s.id = g /\ Early(g, s.next)
    BY <1>1, <1>f
  <2>2. CASE s \in scan
    BY <2>1, <2>2 DEF MayFireEarly, ScanEarly
  <2>3. CASE ScanBegins
    <3>1. s.next = row[g].next /\ g \in Schedulable /\ run[Sched].at = "idle"
      BY <2>1, <2>3, ScanBeginsEffect
    <3>2. row[g].status = "active"
      BY <3>1, Readable
    <3> QED  BY <2>1, <3>1, <3>2 DEF MayFireEarly, RowEarly, Corrected, Exists
  <2> QED  BY <2>1, <2>2, <2>3, ScanSteps
<1>2. ASSUME FireEarly(g)' PROVE MayFireEarly(g) \/ excuse'[g] = excuse[g] + 1
  <2>1. CASE \E s \in scan : ScanFires(s)
    <3>1. PICK s \in scan : ScanFires(s)
      BY <2>1
    <3>2. s.id = g /\ Early(g, s.next)
      BY <1>2, <1>f, <3>1, ScanFiresEffect
    <3> QED  BY <3>2 DEF MayFireEarly, ScanEarly
  <2>2. CASE run[Sched].at # "idle" /\ run'[Sched].trig = run[Sched].trig
    <3>1. Firing(g) /\ Early(g, run[Sched].trig.next)
      BY <1>2, <1>f, <2>2 DEF Firing
    <3>2. CASE run'[Sched].at # "none"
      <4>1. run[Sched].at \in {"begin", "session", "lock"}
        BY <1>2, <1>f, <2>2, <3>2, PlaceSteps
      <4> QED  BY <3>1, <4>1 DEF MayFireEarly, FireEarly
    <3>3. CASE run'[Sched].at = "none"
      <4>1. Kind[g] = "at"
        BY <1>2, <1>f, <3>3
      <4>2. CASE run[Sched].at \in {"none", "begin"}
        BY <3>1, <4>1, <4>2 DEF MayFireEarly, FireEarly
      <4>3. CASE RunEnds(Sched) /\ ~lastRunId
        <5>1. Excuse(g)
          BY <3>1, <4>1, <4>3 DEF RunEnds, ExcuseIf, Firing
        <5> QED  BY <1>q, <5>1, OneMore
      <4> QED  BY <3>3, <4>2, <4>3, NoneSteps
    <3> QED  BY <3>2, <3>3
  <2> QED  BY <1>2, <1>f, <2>1, <2>2, SchedSteps
<1>3. ASSUME RowEarly(g)', ~(Corrected(g)')
      PROVE  MayFireEarly(g) \/ excuse'[g] = excuse[g] + 1
  <2>1. CASE ~RowEarly(g)
    BY <1>3, <2>1, RowEarlySteps
  <2>2. CASE RowEarly(g) /\ ~Corrected(g)
    BY <2>2 DEF MayFireEarly
  <2>3. CASE Corrected(g)
    <3>1. /\ run[Sched].at \in {"cycle", "ran", "none", "raised"} /\ Fired = g
      BY <2>3 DEF Corrected, Firing, Fired
    <3>2. FireHadNoCycle \/ FireFailed \/ FireRecorded \/ Crash
      BY <1>3, <1>f, <3>1, EndingSteps DEF Fired
    <3>3. CASE Crash
      <4>1. Excuse(g)
        BY <3>1, <3>3 DEF Crash
      <4> QED  BY <1>q, <4>1, OneMore
    <3>4. CASE FireHadNoCycle \/ FireFailed \/ FireRecorded
      <4>1. CASE Excuse(g)
        BY <1>q, <4>1, OneMore
      <4>2. CASE FireHadNoCycle /\ Kind[g] = "at" /\ RowEarly(g)
        <5>1. Early(g, run[Sched].trig.next) /\ run[Sched].at = "none"
          BY <4>2, EarlyOneShot DEF RowEarly, FireHadNoCycle
        <5> QED  BY <3>1, <4>2, <5>1 DEF MayFireEarly, FireEarly, Firing, Fired
      <4> QED  BY <1>3, <3>1, <3>4, <4>1, <4>2, FireWrites
    <3> QED  BY <3>2, <3>3, <3>4
  <2> QED  BY <2>1, <2>2, <2>3
<1> QED  BY <1>1, <1>2, <1>3 DEF MayFireEarly

\* Every fire before its time is explained, and the next one is as well.
LEMMA ExtraStep ==
  ASSUME TypeOK, CallInv, ScanInv, QuietInv, ExtraInv, Next
  PROVE  ExtraInv'
<1>0. /\ extra \in [Triggers -> Nat] /\ excuse \in [Triggers -> Nat] /\ excuse' \in [Triggers -> Nat]
      /\ \A g \in Triggers : excuse'[g] >= excuse[g]
      /\ extra' \in [Triggers -> Nat] /\ quiet \in [Triggers -> Nat] /\ now \in Nat
  BY ExcusesTyped, HistoryTyped DEF TypeOK
<1> SUFFICES ASSUME NEW g \in Triggers
             PROVE  extra'[g] <= excuse'[g] /\ (MayFireEarly(g)' => extra'[g] < excuse'[g])
  BY DEF ExtraInv
<1>i. extra[g] <= excuse[g] /\ (MayFireEarly(g) => extra[g] < excuse[g])
  BY DEF ExtraInv
<1>n. /\ extra[g] \in Nat /\ excuse[g] \in Nat /\ excuse'[g] \in Nat /\ excuse'[g] >= excuse[g]
  BY <1>0
<1>1. CASE ~RunBegins(Sched)
  <2>1. extra'[g] = extra[g]
    BY <1>1, HistorySteps
  <2>2. MayFireEarly(g)' => MayFireEarly(g) \/ excuse'[g] = excuse[g] + 1
    BY <1>1, EarlySteps
  <2> QED  BY <1>i, <1>n, <2>1, <2>2
<1>2. CASE RunBegins(Sched)
  <2>1. /\ Fired \in Triggers
        /\ \A h \in Triggers : h # Fired => quiet'[h] = quiet[h] /\ extra'[h] = extra[h]
        /\ extra'[Fired] = IF now < quiet[Fired] THEN extra[Fired] + 1 ELSE extra[Fired]
    BY <1>2, FireBeginsEffect
  <2>2. /\ row' = row /\ scan' = scan /\ excuse' = excuse
        /\ run[Sched].at = "lock" /\ run'[Sched].at = "cycle" /\ run'[Sched].trig = run[Sched].trig
    BY <1>2, BeginsEffect, Names DEF RunBegins, dbVars, scanVars
  <2>3. CASE g # Fired
    <3>1. extra'[g] = extra[g] /\ excuse'[g] = excuse[g] /\ quiet'[g] = quiet[g]
      BY <2>1, <2>2, <2>3
    <3>2. ~Firing(g) /\ ~(Firing(g)')
      BY <2>2, <2>3 DEF Firing, Fired
    <3>3. RowEarly(g)' => RowEarly(g)
      BY <2>2, <3>1 DEF RowEarly, Early, Exists
    <3>4. ScanEarly(g)' => ScanEarly(g)
      BY <2>2, <3>1 DEF ScanEarly, Early
    <3>5. MayFireEarly(g)' => MayFireEarly(g)
      BY <3>2, <3>3, <3>4 DEF MayFireEarly, FireEarly, Corrected
    <3> QED  BY <1>i, <3>1, <3>5
  <2>4. CASE g = Fired
    <3>1. Firing(g)
      BY <2>2, <2>4 DEF Firing, Fired
    <3>2. \A s \in scan : s.id # g
      BY <3>1 DEF ScanInv
    <3>3. ~(MayFireEarly(g)')
      <4>1. Corrected(g)'
        BY <2>2, <2>4 DEF Corrected, Firing, Fired
      <4>2. ~(ScanEarly(g)')
        BY <2>2, <3>2 DEF ScanEarly
      <4>3. ~(FireEarly(g)')
        BY <2>2 DEF FireEarly
      <4> QED  BY <4>1, <4>2, <4>3 DEF MayFireEarly
    <3>4. CASE now < quiet[g]
      <4>1. /\ run[Sched].trig.next # None /\ run[Sched].trig.next \in Times
            /\ run[Sched].trig.next <= now /\ OwnTime(g, run[Sched].trig.next)
        <5>1. run[Sched].trig.next # None /\ run[Sched].trig.next <= now
          BY <2>2 DEF ScanInv
        <5>2. run[Sched].trig.next \in Times
          BY <2>2, FiredType
        <5>3. OwnTime(g, run[Sched].trig.next)
          BY <2>2, <2>4, Names DEF CallInv, CallFor, Fired
        <5> QED  BY <5>1, <5>2, <5>3
      <4>2. Early(g, run[Sched].trig.next)
        <5>1. quiet[g] \in Nat /\ run[Sched].trig.next \in Nat
          BY <1>0, <4>1 DEF Times
        <5>2. run[Sched].trig.next < quiet[g]
          BY <1>0, <3>4, <4>1, <5>1
        <5> QED  BY <4>1, <5>2 DEF Early, OwnTime
      <4>3. MayFireEarly(g)
        BY <2>2, <3>1, <4>2 DEF MayFireEarly, FireEarly
      <4>4. extra'[g] = extra[g] + 1
        BY <2>1, <2>4, <3>4
      <4> QED  BY <1>i, <1>n, <2>2, <3>3, <4>3, <4>4
    <3>5. CASE ~(now < quiet[g])
      <4>1. extra'[g] = extra[g]
        BY <2>1, <2>4, <3>5
      <4> QED  BY <1>i, <2>2, <3>3, <4>1
    <3> QED  BY <3>4, <3>5
  <2> QED  BY <2>3, <2>4
<1> QED  BY <1>1, <1>2

-----------------------------------------------------------------------------
(* The mode of the worker                                                  *)

\* A cycle goes on in its mode until it ends, the worker is replaced or the
\* process dies.
LEMMA CycleKept ==
  ASSUME TypeOK, CallInv, Next, ~UpdateSwap, ~Crash,
         ~\E p \in Runs : RunBegins(p) \/ RunEnds(p)
  PROVE  /\ lock' = lock /\ mode' = mode /\ built' = built
         /\ \A p \in Runs : run[p].at = "cycle" => run'[p] = run[p]
<1>0. /\ run \in [Runs -> Calls] /\ Sched \in Runs /\ Tick \in Runs /\ Triggers \subseteq Runs
  BY Names DEF TypeOK
<1> DEFINE Goal == /\ lock' = lock /\ mode' = mode /\ built' = built
                   /\ \A p \in Runs : run[p].at = "cycle" => run'[p] = run[p]
<1>1. CASE Still
  BY <1>1, StillEffect
<1>2. CASE FireEnds
  BY <1>2, FireEndsEffect DEF OnlyCall
<1>3. CASE ManualTick \/ TickEnds
  <2>1. lock' = lock /\ mode' = mode /\ built' = built /\ run[Tick].at # "cycle"
    BY <1>3 DEF ManualTick, TickEnds, modeVars
  <2>2. \A p \in Runs : p # Tick => run'[p] = run[p]
    BY <1>0, <1>3 DEF ManualTick, TickEnds, Goes
  <2> QED  BY <2>1, <2>2
<1>4. ASSUME NEW g \in Triggers, ManualRun(g) \/ ManualEnds(g) PROVE Goal
  <2>1. lock' = lock /\ mode' = mode /\ built' = built /\ run[g].at # "cycle"
    BY <1>4 DEF ManualRun, ManualEnds, modeVars
  <2>2. \A p \in Runs : p # g => run'[p] = run[p]
    BY <1>0, <1>4 DEF ManualRun, ManualEnds
  <2> QED  BY <2>1, <2>2
<1>5. ASSUME NEW s \in scan, ScanFires(s) PROVE Goal
  BY <1>5, ScanFiresEffect DEF OnlyCall
<1>6. ASSUME NEW p \in Runs, RunChecks(p) \/ RunOpensSession(p) PROVE Goal
  <2>1. lock' = lock /\ mode' = mode /\ built' = built
    BY <1>6 DEF RunChecks, RunOpensSession, modeVars
  <2>2. OnlyCall(p) /\ run[p].at # "cycle"
    BY <1>6, ChecksEffect, OpensEffect
  <2> QED  BY <2>1, <2>2 DEF OnlyCall
<1> QED  BY <1>1, <1>2, <1>3, <1>4, <1>5, <1>6, Steps DEF RunStep

\* A signal_only trigger's cycle is in signal_only mode, and a fire puts back
\* the mode it found.
LEMMA ModeStep ==
  ASSUME TypeOK, CallInv, CallInv', ModeInv, Next
  PROVE  ModeInv'
<1>0. /\ run \in [Runs -> Calls] /\ mode \in RunModes /\ lock \in Runs \cup {None}
      /\ updates \in Nat /\ updates' \in Nat /\ updates' >= updates
      /\ None \notin RunModes /\ None \notin Runs
      /\ \A p \in Runs : CallFor(p) /\ CallFor(p)'
  BY CountersTyped, Names DEF TypeOK, CallInv
<1>c. /\ \A p \in Runs : run[p].at = "cycle" <=> lock = p
      /\ \A p \in Runs : run'[p].at = "cycle" <=> lock' = p
  BY <1>0 DEF CallFor
<1>u. updates' = 0 => updates = 0
  BY <1>0
<1>1. updates' = 0 => ~update'
  <2> SUFFICES ASSUME updates' = 0 PROVE ~update'
    OBVIOUS
  <2>1. ~\E m \in Modes : UpdateBegin(m)
    <3>1. ASSUME NEW m \in Modes, UpdateBegin(m) PROVE FALSE
      BY <1>0, <1>u, <3>1 DEF UpdateBegin
    <3> QED  BY <3>1
  <2>2. ~update
    BY <1>u DEF ModeInv
  <2> QED  BY <2>1, <2>2
           DEF Next, SchedStep, ClockTick, KillStopsTask, ScanBegins, SetKill, SetStatus,
         UpdateSwap, ScanPasses, EditRead, ManualRun, ManualTick, TickEnds, ScanFires,
         RunStep, RunChecks, RunOpensSession, RunBegins, RunEnds, Crash, Pause, Resume, Delete,
         EditWrite, ManualEnds, ScanSetsNext, FireHadNoCycle, FireFailed, FireRecorded, FireDeletes,
         modeVars
<1> DEFINE M1 == \A p \in Runs \ {Tick} :
                   run'[p].at = "cycle" /\ Intent[run'[p].trig.id] = "signal_only"
                     => (IF run'[p].old = None THEN mode' ELSE run'[p].old) = "signal_only"
           M2 == updates' = 0 => mode' = built' \/ (lock' # None /\ run'[lock'].saved # None)
           M3 == updates' = 0 /\ lock' # None
                   => (IF run'[lock'].saved = None THEN mode' ELSE run'[lock'].saved) = built'
<1>2. SUFFICES M1 /\ M2 /\ M3
  BY <1>1 DEF ModeInv, CycleMode, Restored
<1>i. /\ \A p \in Runs \ {Tick} :
           run[p].at = "cycle" /\ Intent[run[p].trig.id] = "signal_only"
             => (IF run[p].old = None THEN mode ELSE run[p].old) = "signal_only"
      /\ updates = 0 => mode = built \/ (lock # None /\ run[lock].saved # None)
      /\ updates = 0 /\ lock # None
           => (IF run[lock].saved = None THEN mode ELSE run[lock].saved) = built
  BY DEF ModeInv, CycleMode, Restored
<1>3. CASE UpdateSwap
  <2>1. ~(updates' = 0)
    BY <1>3, <1>u DEF UpdateSwap, ModeInv
  <2>2. M1
    <3> SUFFICES ASSUME NEW p \in Runs \ {Tick}, run'[p].at = "cycle",
                        Intent[run'[p].trig.id] = "signal_only"
                 PROVE  (IF run'[p].old = None THEN mode' ELSE run'[p].old) = "signal_only"
      OBVIOUS
    <3>1. /\ run'[p].at = run[p].at /\ run'[p].trig = run[p].trig
          /\ IF run[p].at = "cycle" /\ run[p].old = None
             THEN run'[p].old = mode ELSE run'[p].old = run[p].old
      BY <1>3, SwapEffect
    <3>2. (IF run[p].old = None THEN mode ELSE run[p].old) = "signal_only"
      BY <1>i, <3>1
    <3> QED  BY <1>0, <3>1, <3>2
  <2> QED  BY <2>1, <2>2
<1>4. CASE Crash
  <2>1. mode' = config /\ built' = config /\ lock' = None
    BY <1>4 DEF Crash
  <2>2. \A p \in Runs : run'[p].at # "cycle"
    BY <1>0, <1>c, <2>1
  <2> QED  BY <2>1, <2>2
<1>5. ASSUME NEW q \in Runs, RunBegins(q) PROVE M1 /\ M2 /\ M3
  <2>1. /\ run[q].at = "lock" /\ run'[q].trig = run[q].trig /\ run'[q].old = run[q].old
        /\ lock = None /\ lock' = q
        /\ IF run[q].effective \in {None, mode}
           THEN mode' = mode /\ run'[q].saved = None
           ELSE mode' = run[q].effective /\ run'[q].saved = mode
    BY <1>5, BeginsEffect
  <2>2. built' = built
    BY <1>5 DEF RunBegins
  <2>3. M1
    <3> SUFFICES ASSUME NEW p \in Runs \ {Tick}, run'[p].at = "cycle",
                        Intent[run'[p].trig.id] = "signal_only"
                 PROVE  (IF run'[p].old = None THEN mode' ELSE run'[p].old) = "signal_only"
      OBVIOUS
    <3>1. p = q
      BY <1>c, <2>1
    <3>2. run[q].effective = "signal_only" /\ run[q].old = None
      BY <1>0, <2>1, <3>1 DEF CallFor
    <3>3. mode' = "signal_only"
      BY <2>1, <3>2, Names
    <3> QED  BY <2>1, <3>1, <3>2, <3>3
  <2>4. M2 /\ M3
    BY <1>0, <1>i, <1>u, <2>1, <2>2
  <2> QED  BY <2>3, <2>4
<1>6. ASSUME NEW q \in Runs, RunEnds(q) PROVE M1 /\ M2 /\ M3
  <2>1. run[q].at = "cycle" /\ lock' = None
        /\ mode' = IF run[q].saved = None THEN mode ELSE run[q].saved
    BY <1>6, RunEndsEffect DEF Restored
  <2>2. built' = built
    BY <1>6 DEF RunEnds
  <2>3. \A p \in Runs : run'[p].at # "cycle"
    BY <1>0, <1>c, <2>1
  <2>4. lock = q /\ lock # None
    BY <1>0, <1>c, <2>1
  <2> QED  BY <1>i, <1>u, <2>1, <2>2, <2>3, <2>4
<1>7. CASE ~UpdateSwap /\ ~Crash /\ ~\E p \in Runs : RunBegins(p) \/ RunEnds(p)
  <2>1. /\ lock' = lock /\ mode' = mode /\ built' = built
        /\ \A p \in Runs : run[p].at = "cycle" => run'[p] = run[p]
    BY <1>7, CycleKept
  <2>2. M1
    BY <1>c, <1>i, <2>1
  <2>3. lock # None => run'[lock] = run[lock]
    BY <1>0, <1>c, <2>1
  <2> QED  BY <1>i, <1>u, <2>1, <2>2, <2>3
<1> QED  BY <1>3, <1>4, <1>5, <1>6, <1>7

-----------------------------------------------------------------------------
(* The invariant and what follows                                          *)

\* The invariant holds at the start.
LEMMA Initially == Init => IInv
<1> SUFFICES ASSUME Init PROVE IInv
  OBVIOUS
<1>1. ASSUME NEW g \in Triggers PROVE NextFire(g, 0) \in Nat /\ NextFire(g, 0) >= 0
  BY NextFireMono
<1>2. PICK migrated \in SUBSET Triggers :
        row = [g \in Triggers |->
                [status |-> "active", enabled |-> TRUE, last |-> None,
                 next |-> IF g \in migrated THEN None ELSE NextFire(g, 0)]]
  BY DEF Init
<1>3. ASSUME NEW g \in Triggers
      PROVE  /\ row[g] \in Rows /\ row[g].next \in {None, NextFire(g, 0)}
  <2> DEFINE n == IF g \in migrated THEN None ELSE NextFire(g, 0)
  <2>1. n \in {None, NextFire(g, 0)} /\ n \in Times
    BY <1>1 DEF Times
  <2>2. row[g] = [status |-> "active", enabled |-> TRUE, last |-> None, next |-> n]
    BY <1>2
  <2> HIDE DEF n
  <2> QED  BY <2>1, <2>2 DEF Rows, Times
<1>4. row \in [Triggers -> Rows]
  BY <1>2, <1>3
<1>5. run \in [Runs -> Calls] /\ \A p \in Runs : run[p].at = "idle" /\ run[p].old = None
  BY IdleCall DEF Init
<1>6. /\ now = 0 /\ scanAt = 0 /\ scan = {} /\ lock = None /\ calls = 0 /\ updates = 0
      /\ faults = 0 /\ ~update /\ lastRunId = FALSE /\ update = FALSE /\ mode \in Modes
      /\ built = mode /\ config = mode /\ kill = "off" /\ status = "running"
      /\ edit = [g \in Triggers |-> None] /\ quiet = [g \in Triggers |-> 0]
      /\ extra = [g \in Triggers |-> 0] /\ excuse = [g \in Triggers |-> 0]
      /\ stale = [g \in Triggers |-> 0]
  BY DEF Init
<1>7. TypeOK
  BY <1>4, <1>5, <1>6 DEF TypeOK, RunModes
<1>8. CallInv
  BY <1>5, <1>6, Names DEF CallInv, CallFor
<1>9. ScanInv
  BY <1>5, <1>6, Names DEF ScanInv
<1>10. QuietInv
  <2>1. \A g \in Triggers : OwnTime(g, row[g].next)
    BY <1>3 DEF OwnTime, NextFire
  <2>2. \A g \in Triggers : quiet[g] <= NextFire(g, now)
    BY <1>1, <1>6
  <2> QED  BY <1>6, <2>1, <2>2 DEF QuietInv
<1>11. StaleInv
  <2> SUFFICES ASSUME NEW g \in Triggers
               PROVE  /\ stale[g] <= 1
                      /\ stale[g] # 0 =>
                           /\ g \notin Schedulable
                           /\ \A s \in scan : s.id # g
                           /\ run[Sched].at \in {"begin", "session", "lock"} => ~Firing(g)
    BY DEF StaleInv
  <2>1. stale[g] = 0
    BY <1>6
  <2> QED  BY <2>1
<1>12. ExtraInv
  <2> SUFFICES ASSUME NEW g \in Triggers PROVE ~MayFireEarly(g) /\ extra[g] <= excuse[g]
    BY DEF ExtraInv
  <2>1. ~Early(g, row[g].next)
    <3>1. AtTime[g] \in Nat
      BY Constants
    <3> QED  BY <1>1, <1>3, <1>6, <3>1 DEF Early
  <2> QED  BY <1>5, <1>6, <2>1, Names DEF MayFireEarly, RowEarly, ScanEarly, FireEarly, Firing
<1>13. ModeInv
  BY <1>5, <1>6 DEF ModeInv
<1> QED  BY <1>7, <1>8, <1>9, <1>10, <1>11, <1>12, <1>13 DEF IInv

\* Nothing happens.
LEMMA Stutter ==
  ASSUME IInv, UNCHANGED vars
  PROVE  IInv'
<1>1. /\ row' = row /\ now' = now /\ kill' = kill /\ status' = status /\ mode' = mode
      /\ built' = built /\ config' = config /\ update' = update /\ lastRunId' = lastRunId
      /\ lock' = lock /\ run' = run /\ scan' = scan /\ scanAt' = scanAt /\ edit' = edit
      /\ calls' = calls /\ updates' = updates /\ faults' = faults /\ quiet' = quiet
      /\ extra' = extra /\ excuse' = excuse /\ stale' = stale
  BY DEF vars, dbVars, modeVars, scanVars, history, counters
<1>2. TypeOK' /\ CallInv'
  BY <1>1 DEF IInv, TypeOK, CallInv, CallFor, OwnTime
<1>3. ScanInv' /\ QuietInv' /\ StaleInv'
  BY <1>1 DEF IInv, ScanInv, QuietInv, StaleInv, Firing, OwnTime, NextFire, Schedulable
<1>4. ExtraInv'
  BY <1>1 DEF IInv, ExtraInv, MayFireEarly, RowEarly, ScanEarly, FireEarly, Corrected, Early, Exists,
              Firing
<1>5. ModeInv'
  BY <1>1 DEF IInv, ModeInv, CycleMode, Restored
<1> QED  BY <1>2, <1>3, <1>4, <1>5 DEF IInv

\* The invariant is kept by every step.
LEMMA Inductive == IInv /\ [Next]_vars => IInv'
<1>1. ASSUME IInv, Next PROVE IInv'
  <2>1. TypeOK' /\ CallInv' /\ ScanInv' /\ QuietInv' /\ StaleInv' /\ ExtraInv'
    BY <1>1, StepTyped, CallStep, ScanStep, QuietStep, StaleStep, ExtraStep DEF IInv
  <2>2. ModeInv'
    BY <1>1, <2>1, ModeStep DEF IInv
  <2> QED  BY <2>1, <2>2 DEF IInv
<1> QED  BY <1>1, Stutter

\* The invariant: the types, and what links calls, snapshots, rows and the
\* history of the fires.
THEOREM Invariant == Spec => []IInv
<1>1. Init => IInv
  BY Initially
<1>2. IInv /\ [Next]_vars => IInv'
  BY Inductive
<1> QED  BY <1>1, <1>2, PTL DEF Spec

\* Every variable keeps its type.
THEOREM TypeCorrect == Spec => []TypeOK
<1>1. IInv => TypeOK
  BY DEF IInv
<1> QED  BY <1>1, Invariant, PTL

\* A one-shot fires once and a recurring trigger keeps its distance, but for
\* the causes the history counts.
THEOREM FiresAreExplained == Spec => []ExtraFireIsExplained
<1>1. IInv => ExtraFireIsExplained
  BY DEF IInv, ExtraInv, ExtraFireIsExplained
<1> QED  BY <1>1, Invariant, PTL

\* A trigger that people switched off fires at most once more.
THEOREM OffFiresOnce == Spec => []SwitchedOffFiresOnce
<1>1. IInv => SwitchedOffFiresOnce
  BY DEF IInv, StaleInv, SwitchedOffFiresOnce
<1> QED  BY <1>1, Invariant, PTL

\* A signal_only trigger never runs in a mode that trades.
THEOREM SignalsDoNotTrade == Spec => []SignalOnlyNeverTrades
<1>1. IInv => SignalOnlyNeverTrades
  BY DEF IInv, ModeInv, SignalOnlyNeverTrades
<1> QED  BY <1>1, Invariant, PTL

\* While no worker is replaced, a fire's run_mode is gone when it gives the
\* lock back.
THEOREM ModeIsPutBack == Spec => []OverrideIsUndone
<1>1. IInv => OverrideIsUndone
  BY DEF IInv, ModeInv, OverrideIsUndone
<1> QED  BY <1>1, Invariant, PTL

=============================================================================
