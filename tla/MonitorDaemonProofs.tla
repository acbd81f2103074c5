-------------------------- MODULE MonitorDaemonProofs --------------------------
(***************************************************************************)
(* Proofs about the monitoring daemon on the quote stream, for any rules,  *)
(* symbols, clients and accounts, and any number of edits and failures.    *)
(*                                                                         *)
(* The inductive invariant.  The stream (StreamInv): a registration is     *)
(* paid by one socket, the tracked task streams what is wanted, and each   *)
(* task that goes on beside it has a dead socket of its own, because only  *)
(* a task that drops a dead client cannot cancel itself.  The daemon:      *)
(* what was read after the last edit is active and pinned (PinInv), a      *)
(* frame is judged in a task that waits for it (FireInv), and no cooldown  *)
(* is in memory before the rows are read (StartInv).  The spacing of       *)
(* alerts is a debt: Owes counts the alerts of a key that may still come   *)
(* too soon (those judged and not pushed yet, and one that nothing in      *)
(* memory knows of), and SlackInv says that the causes met so far pay for  *)
(* it.  RoomInv does the same for the alerts of one episode of a           *)
(* condition.                                                              *)
(***************************************************************************)
EXTENDS MonitorDaemon, FiniteSetTheorems, TLAPS

-----------------------------------------------------------------------------
(* The inductive invariant: the stream                                     *)

\* A socket dies once per registration.
SocketInv ==
  /\ deaths + Cardinality(joined \ dead) <= sockets
  /\ sockets <= MaxSockets

\* The tracked task runs, on the union it was started for; nobody but the
\* holder of the lock has changed what is wanted.
TaskInv ==
  /\ task # None => task \in Running /\ streams[task].symbols = subscribed /\ conn # None
  /\ lock \in {None, "refresh"} => task = None \/ subscribed = Wanted

\* The clients the tracked task is going to drop.
Owed == IF task # None /\ streams[task].at = "drop" THEN streams[task].drop ELSE {}

\* The tracked task is dropping one.
Dropping == IF task # None /\ lock = task THEN 1 ELSE 0

\* Each task that goes on beside the tracked one, and each that may yet do, has
\* a dead socket of its own.
OrphanInv == Cardinality(Running \ {task}) + Cardinality(dead \cup Owed) + Dropping <= deaths

StreamInv == SocketInv /\ TaskInv /\ OrphanInv

-----------------------------------------------------------------------------
(* The inductive invariant: the daemon                                     *)

\* What was read after the last edit is what is active, and the last pin is of
\* the index.
PinInv ==
  /\ due = 0 /\ ~missed => rules = IF reading = None THEN index ELSE reading
  /\ SymbolsOf(index) = IF pins = <<>> THEN monitored ELSE pins[Len(pins)]

\* A frame is judged in a task that waits for it, by rules that watch it.
FireInv ==
  \A n \in Streams :
    /\ fire[n].at # "none" => /\ streams[n].at = "observe" /\ up
                              /\ fire[n].rule \in RuleSet /\ FireKey(n) \in Keys
    /\ \A i \in fire[n].todo : KeyAt(fire[n], Rules[i]) \in Keys

\* Before the rows are read there is no cooldown.
StartInv == ~up => last = ForKeys(None)

\* Alerts of k not pushed yet.
Pending(k) == {n \in Streams : fire[n].at \in {"open", "push"} /\ FireKey(n) = k}

Soon(k, t) == pushedAt[k] # None /\ t < pushedAt[k] + Cooldown

\* The gate does not know of the last alert pushed ...
Uncovered(k) == pushedAt[k] # None /\ (last[k] = None \/ last[k] < pushedAt[k])

\* ... and no task is about to tell it.
Carried(k) == \E n \in Streams : /\ fire[n].at = "sent" /\ FireKey(n) = k
                                 /\ fire[n].t >= pushedAt[k]

\* The first of the pending alerts keeps the distance.
Fresh(k) == ~Uncovered(k) /\ \A n \in Pending(k) : ~Soon(k, fire[n].t)

\* How many alerts may still come too soon without a new cause.
Owes(k) ==
  IF Pending(k) = {}
  THEN IF Uncovered(k) /\ ~Carried(k) THEN 1 ELSE 0
  ELSE IF Fresh(k) THEN Cardinality(Pending(k)) - 1 ELSE Cardinality(Pending(k))

SlackInv == \A k \in Keys : slack[k] >= IF up THEN Owes(k) ELSE IF Forgotten(k) THEN 1 ELSE 0

\* A condition that has used up its alerts is true, and was true when judged.
RoomInv == \A k \in Keys : room[k] >= 0 /\ (room[k] = 0 => edge[k] /\ cond[k])

IInv == TypeOK /\ StreamInv /\ PinInv /\ FireInv /\ StartInv /\ SlackInv /\ RoomInv

-----------------------------------------------------------------------------
(* The streaming tasks                                                     *)

\* What is assumed of the names.
LEMMA Names ==
  /\ \A n \in Streams : n # None /\ n \notin Clients /\ n # "daemon" /\ n # "refresh"
  /\ \A c \in Clients : c # None /\ c # "refresh"
  /\ None # "daemon" /\ None # "refresh" /\ "daemon" # "refresh"
  /\ None \notin Accounts
  /\ Streams \subseteq Callers /\ Clients \subseteq Callers
BY QuoteAssumption DEF Callers

\* Who calls a rebuild.
LEMMA CallersAre ==
  ASSUME NEW by \in Callers
  PROVE  by \in Clients \cup Streams \cup {"daemon", "refresh"} /\ by # None
BY QuoteAssumption DEF Callers

\* Only the task n changes.
OnlyStream(n) == \A m \in Streams : m # n => streams'[m] = streams[m]

\* A task that goes somewhere keeps the rest of its record.
LEMMA StreamToEffect ==
  ASSUME NEW n \in Streams, NEW at \in {"none", "idle", "observe", "drop", "backoff"},
         streams \in [Streams -> StreamRec], StreamTo(n, at)
  PROVE  /\ streams' \in [Streams -> StreamRec] /\ OnlyStream(n)
         /\ streams'[n].at = at /\ streams'[n].symbols = streams[n].symbols
         /\ streams'[n].drop = streams[n].drop
<1>1. PICK r \in StreamRec : r = streams[n]
  OBVIOUS
<1> DEFINE d == [r EXCEPT !.at = at]
<1>2. d \in StreamRec /\ d.at = at /\ d.symbols = r.symbols /\ d.drop = r.drop
  BY DEF StreamRec
<1>3. streams' = [streams EXCEPT ![n] = d]
  BY <1>1 DEF StreamTo
<1> HIDE DEF d
<1> QED  BY <1>1, <1>2, <1>3 DEF OnlyStream

\* A frame that goes out leaves the clients that did not take it.
LEMMA FanOutEffect ==
  ASSUME NEW n \in Streams, NEW s, streams \in [Streams -> StreamRec],
         dead \subseteq Clients, FanOut(n, s)
  PROVE  /\ streams' \in [Streams -> StreamRec] /\ OnlyStream(n)
         /\ streams'[n].at \in {"idle", "drop"} /\ streams'[n].symbols = streams[n].symbols
         /\ streams'[n].drop \subseteq dead
         /\ connection' = connection /\ registry' = registry /\ monitored' = monitored
         /\ subscribed' = subscribed /\ task' = task /\ lock' = lock
<1> DEFINE gone == {c \in dead : s \in wants[c]}
           at == IF gone = {} THEN "idle" ELSE "drop"
<1>1. PICK r \in StreamRec : r = streams[n]
  OBVIOUS
<1>2. streams' = [streams EXCEPT ![n] = [[r EXCEPT !.at = at] EXCEPT !.drop = gone]]
  BY <1>1 DEF FanOut
<1>3. gone \in SUBSET Clients /\ gone \subseteq dead /\ at \in {"idle", "drop"}
  OBVIOUS
<1> HIDE DEF gone, at
<1> DEFINE e == [r EXCEPT !.at = at]
<1>4. e \in StreamRec /\ e.at = at /\ e.symbols = r.symbols
  BY <1>3 DEF StreamRec
<1>5. streams' = [streams EXCEPT ![n] = [e EXCEPT !.drop = gone]]
  BY <1>2
<1> HIDE DEF e
<1> DEFINE d == [e EXCEPT !.drop = gone]
<1>6. d \in StreamRec /\ d.at = e.at /\ d.symbols = e.symbols /\ d.drop = gone
  BY <1>3, <1>4 DEF StreamRec
<1>7. streams' = [streams EXCEPT ![n] = d]
  BY <1>5
<1> HIDE DEF d
<1>8. streams' \in [Streams -> StreamRec] /\ OnlyStream(n) /\ streams'[n] = d
  BY <1>6, <1>7 DEF OnlyStream
<1>9. /\ connection' = connection /\ registry' = registry /\ monitored' = monitored
      /\ subscribed' = subscribed /\ task' = task /\ lock' = lock
  BY DEF FanOut, StreamOnly
<1> QED  BY <1>1, <1>3, <1>4, <1>6, <1>8, <1>9

\* A task that drops a client holds the lock for it, if it is still there.
LEMMA DropNextEffect ==
  ASSUME NEW n \in Streams, streams \in [Streams -> StreamRec], DropNext(n)
  PROVE  /\ streams' \in [Streams -> StreamRec] /\ OnlyStream(n)
         /\ streams[n].at = "drop" /\ streams'[n].at \in {"idle", "drop"}
         /\ streams'[n].symbols = streams[n].symbols /\ lock = None
         /\ connection' = connection /\ sockets' = sockets /\ deaths' = deaths
         /\ monitored' = monitored /\ subscribed' = subscribed /\ task' = task
         /\ \E c \in streams[n].drop :
              /\ streams'[n].drop = streams[n].drop \ {c}
              /\ \/ c \in joined /\ lock' = n /\ Drops(c)
                 \/ lock' = None /\ joined' = joined /\ dead' = dead /\ wants' = wants
<1>1. PICK r \in StreamRec : r = streams[n]
  OBVIOUS
<1>2. PICK c \in r.drop :
        /\ streams' = [streams EXCEPT ![n].drop = @ \ {c},
                        ![n].at = IF streams[n].drop = {c} THEN "idle" ELSE "drop"]
        /\ \/ c \in joined /\ lock' = n /\ Drops(c)
           \/ lock' = lock /\ joined' = joined /\ dead' = dead /\ wants' = wants
  BY <1>1 DEF DropNext
<1> DEFINE left == r.drop \ {c}
           at == IF r.drop = {c} THEN "idle" ELSE "drop"
<1>3. streams' = [streams EXCEPT ![n] = [[r EXCEPT !.drop = left] EXCEPT !.at = at]]
  BY <1>1, <1>2
<1>4. left \in SUBSET Clients /\ left = r.drop \ {c} /\ at \in {"idle", "drop"}
  BY DEF StreamRec
<1> HIDE DEF left, at
<1> DEFINE e == [r EXCEPT !.drop = left]
<1>5. e \in StreamRec /\ e.drop = left /\ e.symbols = r.symbols
  BY <1>4 DEF StreamRec
<1>6. streams' = [streams EXCEPT ![n] = [e EXCEPT !.at = at]]
  BY <1>3
<1> HIDE DEF e
<1> DEFINE d == [e EXCEPT !.at = at]
<1>7. d \in StreamRec /\ d.at = at /\ d.symbols = e.symbols /\ d.drop = e.drop
  BY <1>4, <1>5 DEF StreamRec
<1>8. streams' = [streams EXCEPT ![n] = d]
  BY <1>6
<1> HIDE DEF d
<1>9. streams' \in [Streams -> StreamRec] /\ OnlyStream(n) /\ streams'[n] = d
  BY <1>7, <1>8 DEF OnlyStream
<1>10. /\ streams[n].at = "drop" /\ lock = None
       /\ connection' = connection /\ sockets' = sockets /\ deaths' = deaths
       /\ monitored' = monitored /\ subscribed' = subscribed /\ task' = task
  BY DEF DropNext
<1> QED  BY <1>1, <1>2, <1>4, <1>5, <1>7, <1>9, <1>10

\* No task.
LEMMA NoStreamIs ==
  NoStream \in StreamRec /\ NoStream.at = "none" /\ NoStream.drop = {} /\ NoStream.symbols = {}
BY DEF NoStream, StreamRec

\* What cancelling does.
LEMMA CancelledEffect ==
  ASSUME NEW by, streams \in [Streams -> StreamRec], task \in Streams \cup {None}
  PROVE  /\ Cancelled(by) \in [Streams -> StreamRec]
         /\ \A m \in Streams : m # task => Cancelled(by)[m] = streams[m]
         /\ task # None /\ task = by => Cancelled(by) = streams
         /\ task # None /\ task # by => Cancelled(by)[task] = NoStream
         /\ task = None => Cancelled(by) = streams
BY NoStreamIs DEF Cancelled

\* The shapes of a rebuild: the task is kept, it is cancelled, or another one
\* takes its place.
Kept(by) ==
  /\ streams' = streams /\ task' = task /\ conn' = conn
  /\ \/ subscribed' = subscribed /\ (by = "refresh" \/ Wanted = subscribed)
     \/ conn = None /\ subscribed' = Wanted
Gone(by) ==
  /\ streams' = Cancelled(by) /\ task' = None /\ conn' \in Accounts \cup {None}
  /\ subscribed' \in {subscribed, Wanted}
Fresher(by) ==
  /\ task' = CHOOSE m \in Streams : Cancelled(by)[m].at = "none"
  /\ streams' = [Cancelled(by) EXCEPT ![task'] =
                   [NoStream EXCEPT !.at = "idle", !.symbols = Wanted]]
  /\ subscribed' = Wanted /\ conn' \in Accounts

\* A rebuild has one of them.
LEMMA RebuildShapes ==
  ASSUME NEW by, QuoteTypeOK, TaskInv, Rebuild(by)
  PROVE  /\ Kept(by) \/ Gone(by) \/ Fresher(by)
         /\ lock = by /\ by # None /\ lock' = None
         /\ registry' = registry /\ monitored' = monitored
         /\ account' = account /\ moves' = moves
         /\ faults' \in {faults, faults + 1}
<1>0. /\ lock = by /\ by # None /\ lock' = None
      /\ registry' = registry /\ monitored' = monitored
      /\ account' = account /\ moves' = moves
      /\ faults' \in {faults, faults + 1}
  BY DEF Rebuild, Fault
<1>1. /\ account \in Accounts \cup {None} /\ conn \in Accounts \cup {None}
      /\ task # None => conn # None
  BY DEF QuoteTypeOK, TaskInv
<1>2. PICK sig \in {account, conn, None} :
        /\ conn' = sig
        /\ IF sig = conn THEN Restream(by, sig, streams, task # None)
                         ELSE Restream(by, sig, Cancelled(by), FALSE)
  BY DEF Rebuild
<1>3. CASE sig = conn
  <2>1. Restream(by, sig, streams, task # None)
    BY <1>2, <1>3
  <2>2. CASE by = "refresh" \/ Keeps(task # None)
    <3>1. streams' = streams /\ task' = (IF task # None THEN task ELSE None)
          /\ subscribed' = subscribed
      BY <2>1, <2>2 DEF Restream
    <3> QED  BY <1>0, <1>2, <1>3, <2>2, <3>1 DEF Kept, Keeps
  <2>3. CASE ~(by = "refresh" \/ Keeps(task # None)) /\ sig = None
    <3>1. streams' = streams /\ task' = (IF task # None THEN task ELSE None)
          /\ subscribed' = Wanted
      BY <2>1, <2>3 DEF Restream
    <3> QED  BY <1>0, <1>2, <1>3, <2>3, <3>1 DEF Kept
  <2>4. CASE ~(by = "refresh" \/ Keeps(task # None)) /\ sig # None /\ Wanted = {}
    <3>1. streams' = Cancelled(by) /\ task' = None /\ subscribed' = Wanted
      BY <2>1, <2>4 DEF Restream
    <3> QED  BY <1>0, <1>1, <1>2, <1>3, <3>1 DEF Gone
  <2>5. CASE ~(by = "refresh" \/ Keeps(task # None)) /\ sig # None /\ Wanted # {}
    <3>1. /\ subscribed' = Wanted
          /\ task' = Started(Cancelled(by), Wanted)[1]
          /\ streams' = Started(Cancelled(by), Wanted)[2]
      BY <2>1, <2>5 DEF Restream
    <3> QED  BY <1>0, <1>1, <1>2, <1>3, <2>5, <3>1 DEF Fresher, Started
  <2> QED  BY <2>2, <2>3, <2>4, <2>5
<1>4. CASE sig # conn
  <2>1. Restream(by, sig, Cancelled(by), FALSE)
    BY <1>2, <1>4
  <2>2. CASE by = "refresh" \/ Keeps(FALSE) \/ sig = None
    <3>1. streams' = Cancelled(by) /\ task' = None /\ subscribed' \in {subscribed, Wanted}
      BY <2>1, <2>2 DEF Restream
    <3> QED  BY <1>0, <1>1, <1>2, <3>1 DEF Gone
  <2>4. CASE ~(by = "refresh" \/ Keeps(FALSE)) /\ sig # None /\ Wanted = {}
    <3>1. streams' = Cancelled(by) /\ task' = None /\ subscribed' = Wanted
      BY <2>1, <2>4 DEF Restream
    <3> QED  BY <1>0, <1>1, <1>2, <3>1 DEF Gone
  <2>5. CASE ~(by = "refresh" \/ Keeps(FALSE)) /\ sig # None /\ Wanted # {}
    <3>1. /\ subscribed' = Wanted
          /\ task' = Started(Cancelled(by), Wanted)[1]
          /\ streams' = Started(Cancelled(by), Wanted)[2]
      BY <2>1, <2>5 DEF Restream
    <3> QED  BY <1>0, <1>1, <1>2, <2>5, <3>1 DEF Fresher, Started
  <2> QED  BY <2>2, <2>4, <2>5
<1> QED  BY <1>3, <1>4

-----------------------------------------------------------------------------
(* What a step does to the stream                                          *)

QuoteStill == UNCHANGED <<connection, registry, monitored, subscribed, task, streams, lock>>

\* A client comes, changes its mind, dies or goes.
ClientStep(c) ==
  \/ \E syms \in SUBSET Symbols : Register(c, syms) \/ Update(c, syms)
  \/ SocketDies(c) \/ Unregister(c)

\* A streaming task goes on to another await.
TaskMoves(n) ==
  \/ UpstreamDrops(n) \/ Resubscribe(n)
  \/ streams[n].at \in {"idle", "observe"} /\ (Held(n) \/ \E s \in Symbols \cup {None} : FanOut(n, s))

QuoteStep ==
  \/ QuoteStill \/ Crash \/ MoveAccount \/ Refresh
  \/ pins # <<>> /\ Pin(Head(pins))
  \/ \E c \in Clients : ClientStep(c)
  \/ \E by \in Callers : Rebuild(by)
  \/ \E n \in Streams : DropNext(n) \/ TaskMoves(n)

\* Judging a frame ends in one of two ways for the task.
LEMMA JudgeStreams ==
  ASSUME NEW n \in Streams, NEW f, f.sym \in Symbols \cup {None}, Judge(n, f),
         streams[n].at \in {"idle", "observe"}
  PROVE  TaskMoves(n)
BY DEF Judge, TaskMoves

\* Each step is one of these.
LEMMA QuoteSteps ==
  ASSUME TypeOK, FireInv, Next
  PROVE  QuoteStep /\ faults' \in {faults, faults + 1}
<1>f. \A n \in Streams : fire[n].sym \in Symbols \cup {None}
                         /\ (fire[n].at # "none" => streams[n].at = "observe")
  BY DEF TypeOK, FireInv
<1>1. CASE Tick \/ NewDay \/ StartUp \/ (\E k \in Keys : Flip(k)) \/ (\E r \in RuleSet : EditRule(r))
           \/ ReloadRead \/ ReloadIndex
  BY <1>1 DEF Tick, NewDay, StartUp, Flip, EditRule, ReloadRead, ReloadIndex, QuoteStep,
              QuoteStill, quoteVars, Fault
<1>2. CASE Crash
  BY <1>2 DEF Crash, Fault, QuoteStep
<1>3. CASE PinNext
  BY <1>3 DEF PinNext, QuoteStep, Pin
<1>4. CASE Quietly(MoveAccount) \/ Quietly(Refresh)
  BY <1>4 DEF Quietly, MoveAccount, Refresh, QuoteStep
<1>5. ASSUME NEW c \in Clients,
             \/ \E syms \in Asks : Quietly(Register(c, syms)) \/ Quietly(Update(c, syms))
             \/ Quietly(SocketDies(c)) \/ Quietly(Unregister(c))
      PROVE  QuoteStep /\ faults' \in {faults, faults + 1}
  <2>1. ClientStep(c)
    BY <1>5, QuoteAssumption DEF Quietly, ClientStep
  <2>2. faults' = faults
    BY <1>5 DEF Quietly, Register, Update, SocketDies, Unregister
  <2> QED  BY <2>1, <2>2 DEF QuoteStep
<1>6. ASSUME NEW by \in Callers, RebuildCuts(by)
      PROVE  QuoteStep /\ faults' \in {faults, faults + 1}
  BY <1>6 DEF RebuildCuts, QuoteStep, Rebuild, Fault
<1>7. ASSUME NEW n \in Streams, NEW s \in Symbols, Observe(n, s)
      PROVE  QuoteStep /\ faults' \in {faults, faults + 1}
  <2> DEFINE f == [NoFire EXCEPT !.sym = s, !.t = now, !.seen = {k \in Keys : cond[k]},
                     !.todo = IF up THEN {i \in DOMAIN Rules : Rules[i] \in index /\ s \in Scope[Rules[i]]}
                              ELSE {}]
  <2>1. Judge(n, f) /\ streams[n].at = "idle" /\ faults' = faults
    BY <1>7 DEF Observe, Receives
  <2>2. f.sym = s
    BY DEF NoFire
  <2> HIDE DEF f
  <2>3. TaskMoves(n)
    BY <2>1, <2>2, JudgeStreams
  <2> QED  BY <2>1, <2>3 DEF QuoteStep
<1>8. ASSUME NEW n \in Streams, FireMark(n)
      PROVE  QuoteStep /\ faults' \in {faults, faults + 1}
  <2> DEFINE f == [fire[n] EXCEPT !.at = "none"]
  <2>1. Judge(n, f) /\ streams[n].at = "observe" /\ faults' = faults
    BY <1>8, <1>f DEF FireMark
  <2>2. f.sym \in Symbols \cup {None}
    BY DEF TypeOK
  <2> HIDE DEF f
  <2>3. TaskMoves(n)
    BY <2>1, <2>2, JudgeStreams
  <2> QED  BY <2>1, <2>3 DEF QuoteStep
<1>9. ASSUME NEW n \in Streams, FireInsert(n)
      PROVE  QuoteStep /\ faults' \in {faults, faults + 1}
  <2>1. fire[n].at = "open" /\ streams[n].at = "observe" /\ fire[n].sym \in Symbols \cup {None}
    BY <1>9, <1>f DEF FireInsert
  <2>2. UNCHANGED <<connection, registry, monitored, subscribed, task, lock>>
        /\ faults' \in {faults, faults + 1}
    BY <1>9 DEF FireInsert, FireOnly, Fault
  <2>3. streams' = streams \/ FanOut(n, fire[n].sym)
    BY <1>9 DEF FireInsert
  <2> QED  BY <2>1, <2>2, <2>3 DEF QuoteStep, QuoteStill, TaskMoves
<1>10. ASSUME NEW n \in Streams, FirePush(n) \/ FireRecord(n)
       PROVE  QuoteStep /\ faults' \in {faults, faults + 1}
  BY <1>10 DEF FirePush, FireRecord, FireOnly, Fault, QuoteStep, QuoteStill
<1>11. ASSUME NEW n \in Streams,
              Quietly(DropNext(n)) \/ Quietly(UpstreamDrops(n)) \/ Quietly(Resubscribe(n))
       PROVE  QuoteStep /\ faults' \in {faults, faults + 1}
  BY <1>11 DEF Quietly, QuoteStep, TaskMoves, DropNext, UpstreamDrops, Resubscribe, Fault
<1> QED
  BY <1>1, <1>2, <1>3, <1>4, <1>5, <1>6, <1>7, <1>8, <1>9, <1>10, <1>11 DEF Next

StreamOthers ==
  UNCHANGED <<connection, registry, monitored, subscribed, task, lock>>

\* A task that moves on stays a task, and drops only who is dead.
LEMMA TaskMovesEffect ==
  ASSUME NEW n \in Streams, QuoteTypeOK, TaskMoves(n)
  PROVE  /\ streams' \in [Streams -> StreamRec] /\ OnlyStream(n) /\ StreamOthers
         /\ streams[n].at # "none" /\ streams'[n].at # "none"
         /\ streams'[n].symbols = streams[n].symbols
         /\ streams'[n].at = "drop" => streams'[n].drop \subseteq dead
<1>1. streams \in [Streams -> StreamRec] /\ dead \subseteq Clients
  BY DEF QuoteTypeOK
<1>2. CASE UpstreamDrops(n)
  <2>1. StreamTo(n, "backoff") /\ streams[n].at = "idle" /\ StreamOthers
    BY <1>2 DEF UpstreamDrops, StreamOnly, StreamOthers
  <2> QED  BY <1>1, <2>1, StreamToEffect
<1>3. CASE Resubscribe(n)
  <2>1. StreamTo(n, "idle") /\ streams[n].at = "backoff" /\ StreamOthers
    BY <1>3 DEF Resubscribe, StreamOnly, StreamOthers
  <2> QED  BY <1>1, <2>1, StreamToEffect
<1>4. CASE streams[n].at \in {"idle", "observe"} /\ Held(n)
  <2>1. StreamTo(n, "observe") /\ StreamOthers
    BY <1>4 DEF Held, StreamOnly, StreamOthers
  <2> QED  BY <1>1, <1>4, <2>1, StreamToEffect
<1>5. ASSUME streams[n].at \in {"idle", "observe"}, NEW s, FanOut(n, s)
      PROVE  /\ streams' \in [Streams -> StreamRec] /\ OnlyStream(n) /\ StreamOthers
             /\ streams[n].at # "none" /\ streams'[n].at # "none"
             /\ streams'[n].symbols = streams[n].symbols
             /\ streams'[n].at = "drop" => streams'[n].drop \subseteq dead
  <2>1. StreamOthers
    BY <1>5 DEF FanOut, StreamOnly, StreamOthers
  <2> QED  BY <1>1, <1>5, <2>1, FanOutEffect
<1> QED  BY <1>2, <1>3, <1>4, <1>5 DEF TaskMoves

\* The tasks that go on beside a task that is cancelled.
LEMMA CancelledRunning ==
  ASSUME NEW by, QuoteTypeOK, lock = by, by # None
  PROVE  LET left == {m \in Streams : Cancelled(by)[m].at # "none"} IN
         /\ IsFiniteSet(left) /\ IsFiniteSet(Running \ {task})
         /\ Cardinality(left) <= Cardinality(Running \ {task}) + Dropping
<1> DEFINE left == {m \in Streams : Cancelled(by)[m].at # "none"}
<1>1. IsFiniteSet(left) /\ IsFiniteSet(Running \ {task})
  <2>1. left \subseteq Streams /\ Running \ {task} \subseteq Streams
    BY DEF Running
  <2> QED  BY <2>1, QuoteAssumption, FS_Subset
<1>2. Cardinality(Running \ {task}) \in Nat /\ Cardinality(left) \in Nat
  BY <1>1, FS_CardinalityType
<1>3. streams \in [Streams -> StreamRec] /\ task \in Streams \cup {None}
  BY DEF QuoteTypeOK
<1>4. CASE task = None
  <2>1. left \subseteq Running \ {task}
    BY <1>3, <1>4, CancelledEffect, Names DEF Running
  <2>2. Cardinality(left) <= Cardinality(Running \ {task}) /\ Dropping = 0
    BY <1>1, <1>4, <2>1, FS_Subset DEF Dropping
  <2> QED  BY <1>1, <1>2, <2>2
<1>5. CASE task # None /\ task # by
  <2>1. left \subseteq Running \ {task}
    BY <1>3, <1>5, CancelledEffect, NoStreamIs DEF Running
  <2>2. Cardinality(left) <= Cardinality(Running \ {task}) /\ Dropping = 0
    BY <1>1, <1>5, <2>1, FS_Subset DEF Dropping
  <2> QED  BY <1>1, <1>2, <2>2
<1>6. CASE task # None /\ task = by
  <2>1. left \subseteq (Running \ {task}) \cup {task}
    BY <1>3, <1>6, CancelledEffect DEF Running
  <2>2. /\ IsFiniteSet((Running \ {task}) \cup {task})
        /\ Cardinality((Running \ {task}) \cup {task}) = Cardinality(Running \ {task}) + 1
    <3>1. task \notin Running \ {task}
      OBVIOUS
    <3> QED  BY <1>1, <3>1, FS_AddElement
  <2>3. Cardinality(left) <= Cardinality(Running \ {task}) + 1
    BY <2>1, <2>2, FS_Subset
  <2>4. Dropping = 1
    BY <1>6 DEF Dropping
  <2> QED  BY <1>1, <2>3, <2>4
<1> QED  BY <1>4, <1>5, <1>6

\* Tasks, sockets and clients are counted with numbers.
LEMMA Counted ==
  ASSUME QuoteTypeOK
  PROVE  /\ IsFiniteSet(Clients) /\ IsFiniteSet(Streams)
         /\ IsFiniteSet(joined \ dead) /\ IsFiniteSet(dead \cup Owed)
         /\ Cardinality(joined \ dead) \in Nat /\ Cardinality(dead \cup Owed) \in Nat
         /\ Cardinality(Running \ {task}) \in Nat /\ Dropping \in {0, 1}
         /\ MaxSockets \in Nat /\ deaths \in Nat /\ sockets \in Nat
<1>1. joined \ dead \subseteq Clients /\ dead \cup Owed \subseteq Clients
  BY DEF QuoteTypeOK, Owed, StreamRec
<1>2. Running \ {task} \subseteq Streams
  BY DEF Running
<1>3. IsFiniteSet(joined \ dead) /\ IsFiniteSet(dead \cup Owed) /\ IsFiniteSet(Running \ {task})
  BY <1>1, <1>2, QuoteAssumption, FS_Subset
<1>4. Dropping \in {0, 1}
  BY DEF Dropping
<1> QED  BY <1>3, <1>4, QuoteAssumption, FS_CardinalityType DEF QuoteTypeOK

\* There is an identity for a new task.
LEMMA AnIdentityIsFree ==
  ASSUME NEW by, QuoteTypeOK, StreamInv, lock = by, by # None
  PROVE  \E m \in Streams : Cancelled(by)[m].at = "none"
<1> DEFINE left == {m \in Streams : Cancelled(by)[m].at # "none"}
<1>1. IsFiniteSet(left) /\ Cardinality(left) <= Cardinality(Running \ {task}) + Dropping
  BY CancelledRunning
<1>2. Cardinality(left) <= MaxSockets
  BY <1>1, Counted, FS_CardinalityType DEF StreamInv, SocketInv, OrphanInv
<1>3. Cardinality(Streams) > MaxSockets /\ Cardinality(Streams) \in Nat /\ MaxSockets \in Nat
  BY QuoteAssumption, FS_CardinalityType
<1>4. Cardinality(left) \in Nat
  BY <1>1, FS_CardinalityType
<1>5. left # Streams
  <2> HIDE DEF left
  <2> QED  BY <1>2, <1>3, <1>4
<1> QED  BY <1>5

\* A rebuild leaves at most one task more beside the tracked one, and only when
\* that task called it; the tracked one, if any, streams the union.
LEMMA RebuildEffect ==
  ASSUME NEW by \in Callers, QuoteTypeOK, StreamInv, Rebuild(by)
  PROVE  /\ streams' \in [Streams -> StreamRec] /\ task' \in Streams \cup {None}
         /\ conn' \in Accounts \cup {None} /\ subscribed' \in {subscribed, Wanted}
         /\ lock = by /\ by # None /\ lock' = None /\ registry' = registry
         /\ account' = account /\ moves' = moves
         /\ monitored' = monitored /\ Wanted' = Wanted
         /\ task' # None => task' \in Running' /\ streams'[task'].symbols = subscribed' /\ conn' # None
         /\ task' = None \/ subscribed' = Wanted
         /\ Owed' \subseteq Owed /\ Dropping' = 0
         /\ Cardinality(Running' \ {task'}) <= Cardinality(Running \ {task}) + Dropping
<1>0. /\ streams \in [Streams -> StreamRec] /\ task \in Streams \cup {None} /\ TaskInv
      /\ conn \in Accounts \cup {None} /\ None \notin Accounts /\ None \notin Streams
  BY Names DEF QuoteTypeOK, StreamInv
<1>1. /\ Kept(by) \/ Gone(by) \/ Fresher(by)
      /\ lock = by /\ by # None /\ lock' = None /\ registry' = registry /\ monitored' = monitored
      /\ account' = account /\ moves' = moves
  BY <1>0, RebuildShapes
<1>2. Wanted' = Wanted
  BY <1>1 DEF Wanted, registry
<1> DEFINE left == {m \in Streams : Cancelled(by)[m].at # "none"}
<1>3. /\ Cardinality(left) <= Cardinality(Running \ {task}) + Dropping
      /\ Cancelled(by) \in [Streams -> StreamRec]
  BY <1>0, <1>1, CancelledRunning, CancelledEffect
<1>4. Dropping' = 0
  BY <1>1 DEF Dropping
<1>5. CASE Kept(by)
  <2>1. Running' = Running /\ task' = task /\ Owed' = Owed /\ streams' = streams /\ conn' = conn
    BY <1>5 DEF Kept, Running, Owed
  <2>2. /\ subscribed' \in {subscribed, Wanted}
        /\ task # None => subscribed' = subscribed
        /\ task' = None \/ subscribed' = Wanted
    BY <1>0, <1>1, <1>5 DEF Kept, TaskInv
  <2>3. Cardinality(Running \ {task}) <= Cardinality(Running \ {task}) + Dropping
    BY Counted
  <2> QED  BY <1>0, <1>1, <1>2, <1>4, <2>1, <2>2, <2>3 DEF TaskInv
<1>6. CASE Gone(by)
  <2>1. Running' \ {task'} = left /\ Owed' = {}
    BY <1>0, <1>6 DEF Gone, Running, Owed
  <2> QED  BY <1>1, <1>2, <1>3, <1>4, <1>6, <2>1 DEF Gone
<1>7. CASE Fresher(by)
  <2>1. task' \in Streams /\ Cancelled(by)[task'].at = "none"
    BY <1>0, <1>1, <1>7, AnIdentityIsFree DEF Fresher
  <2> DEFINE d == [NoStream EXCEPT !.at = "idle", !.symbols = Wanted]
  <2>2. Wanted \subseteq Symbols
    BY DEF Wanted, QuoteTypeOK
  <2>3. d \in StreamRec /\ d.at = "idle" /\ d.symbols = Wanted
    BY <2>2 DEF NoStream, StreamRec
  <2>4. streams' = [Cancelled(by) EXCEPT ![task'] = d]
    BY <1>7 DEF Fresher
  <2> HIDE DEF d
  <2>5. streams' \in [Streams -> StreamRec] /\ streams'[task'] = d
    BY <1>3, <2>1, <2>3, <2>4
  <2>6. Running' \ {task'} = left
    BY <1>3, <2>1, <2>4 DEF Running
  <2>7. Owed' = {} /\ task' \in Running'
    BY <2>1, <2>3, <2>5 DEF Owed, Running
  <2> QED  BY <1>0, <1>1, <1>2, <1>3, <1>4, <1>7, <2>1, <2>3, <2>5, <2>6, <2>7 DEF Fresher
<1> QED  BY <1>1, <1>5, <1>6, <1>7

-----------------------------------------------------------------------------
(* The stream's invariant                                                  *)

QuoteRows ==
  /\ joined' \subseteq Clients /\ dead' \subseteq joined'
  /\ wants' \in [Clients -> SUBSET Symbols]
  /\ sockets' \in Nat /\ deaths' \in Nat

\* What a client's step does to the registry.
LEMMA ClientEffect ==
  ASSUME NEW c \in Clients, QuoteTypeOK, ClientStep(c)
  PROVE  /\ QuoteRows
         /\ UNCHANGED <<connection, monitored, subscribed, task, streams>>
         /\ (lock' = lock /\ Wanted' = Wanted) \/ (lock = None /\ lock' = c)
<1>1. c # None /\ IsFiniteSet(Clients)
  BY Names, QuoteAssumption
<1>2. ASSUME NEW syms \in SUBSET Symbols, Register(c, syms)
      PROVE  /\ QuoteRows /\ UNCHANGED <<connection, monitored, subscribed, task, streams>>
             /\ lock = None /\ lock' = c
  BY <1>2 DEF Register, Takes, QuoteRows, QuoteTypeOK
<1>3. ASSUME NEW syms \in SUBSET Symbols, Update(c, syms)
      PROVE  /\ QuoteRows /\ UNCHANGED <<connection, monitored, subscribed, task, streams>>
             /\ lock = None /\ lock' = c
  BY <1>3 DEF Update, Takes, QuoteRows, QuoteTypeOK
<1>4. CASE SocketDies(c)
  BY <1>4 DEF SocketDies, QuoteRows, QuoteTypeOK, Wanted
<1>5. CASE Unregister(c)
  BY <1>5 DEF Unregister, Drops, Takes, QuoteRows, QuoteTypeOK
<1> QED  BY <1>2, <1>3, <1>4, <1>5 DEF ClientStep

\* The stream's variables keep their types.
LEMMA QuoteTypes ==
  ASSUME TypeOK, StreamInv, QuoteStep, faults' \in {faults, faults + 1}
  PROVE  QuoteTypeOK'
<1>0. QuoteTypeOK /\ faults' \in Nat /\ pins \in Seq(SUBSET Symbols)
  BY DEF TypeOK, QuoteTypeOK
<1> USE DEF connection, registry
<1>1. CASE QuoteStill
  BY <1>0, <1>1 DEF QuoteStill, QuoteTypeOK
<1>2. CASE Crash
  <2>1. [n \in Streams |-> NoStream] \in [Streams -> StreamRec]
    BY NoStreamIs
  <2> QED  BY <1>0, <1>2, <2>1 DEF Crash, QuoteTypeOK
<1>3. CASE MoveAccount
  BY <1>0, <1>3 DEF MoveAccount, QuoteTypeOK
<1>4. CASE Refresh
  <2>1. "refresh" \in Callers
    BY DEF Callers
  <2> QED  BY <1>0, <1>4, <2>1 DEF Refresh, Takes, QuoteTypeOK
<1>5. CASE pins # <<>> /\ Pin(Head(pins))
  <2>1. "daemon" \in Callers /\ Head(pins) \in SUBSET Symbols
    BY <1>0, <1>5 DEF Callers
  <2> QED  BY <1>0, <1>5, <2>1 DEF Pin, QuoteTypeOK
<1>6. ASSUME NEW c \in Clients, ClientStep(c)
      PROVE  QuoteTypeOK'
  BY <1>0, <1>6, ClientEffect, Names DEF QuoteTypeOK, QuoteRows
<1>7. ASSUME NEW by \in Callers, Rebuild(by)
      PROVE  QuoteTypeOK'
  <2>1. Wanted \subseteq Symbols
    BY <1>0 DEF Wanted, QuoteTypeOK
  <2> QED  BY <1>0, <1>7, <2>1, RebuildEffect DEF QuoteTypeOK
<1>8. ASSUME NEW n \in Streams, DropNext(n)
      PROVE  QuoteTypeOK'
  <2>1. streams \in [Streams -> StreamRec] /\ n \in Callers
    BY <1>0, Names DEF QuoteTypeOK
  <2>2. PICK c \in streams[n].drop :
          \/ c \in joined /\ lock' = n /\ Drops(c)
          \/ lock' = None /\ joined' = joined /\ dead' = dead /\ wants' = wants
    BY <1>8, <2>1, DropNextEffect
  <2>3. c \in Clients
    BY <2>1 DEF StreamRec
  <2>4. joined' \subseteq Clients /\ dead' \subseteq joined' /\ wants' \in [Clients -> SUBSET Symbols]
        /\ lock' \in Callers \cup {None}
    BY <1>0, <2>1, <2>2, <2>3 DEF Drops, QuoteTypeOK
  <2> QED  BY <1>0, <1>8, <2>1, <2>4, DropNextEffect DEF QuoteTypeOK
<1>9. ASSUME NEW n \in Streams, TaskMoves(n)
      PROVE  QuoteTypeOK'
  BY <1>0, <1>9, TaskMovesEffect DEF QuoteTypeOK, StreamOthers
<1> QED  BY <1>1, <1>2, <1>3, <1>4, <1>5, <1>6, <1>7, <1>8, <1>9 DEF QuoteStep

\* A socket dies once per registration.
LEMMA SocketStep ==
  ASSUME TypeOK, StreamInv, QuoteStep
  PROVE  SocketInv'
<1>0. QuoteTypeOK /\ SocketInv /\ IsFiniteSet(Clients)
  BY QuoteAssumption DEF TypeOK, StreamInv
<1>n. /\ joined \subseteq Clients /\ dead \subseteq joined
      /\ Cardinality(joined \ dead) \in Nat /\ IsFiniteSet(joined \ dead)
      /\ MaxSockets \in Nat /\ deaths \in Nat /\ sockets \in Nat
  BY <1>0, Counted DEF QuoteTypeOK
<1>s. ASSUME joined' \ dead' \subseteq joined \ dead, sockets' = sockets, deaths' = deaths
      PROVE  SocketInv'
  <2>1. Cardinality(joined' \ dead') <= Cardinality(joined \ dead)
        /\ Cardinality(joined' \ dead') \in Nat
    BY <1>n, <1>s, FS_Subset, FS_CardinalityType
  <2> QED  BY <1>0, <1>n, <1>s, <2>1 DEF SocketInv
<1>1. CASE QuoteStill \/ MoveAccount \/ Refresh \/ (pins # <<>> /\ Pin(Head(pins)))
  BY <1>1, <1>s DEF QuoteStill, MoveAccount, Refresh, Pin, registry
<1>2. CASE Crash
  <2>1. Cardinality({}) = 0 /\ {} \ {} = {}
    BY FS_EmptySet
  <2>2. joined' \ dead' = {} /\ deaths' = 0 /\ sockets' = sockets
    BY <1>2 DEF Crash
  <2> QED  BY <1>0, <1>n, <2>1, <2>2 DEF SocketInv
<1>3. ASSUME NEW c \in Clients, NEW syms, Register(c, syms)
      PROVE  SocketInv'
  <2>1. joined' \ dead' = (joined \ dead) \cup {c} /\ c \notin joined \ dead
        /\ sockets' = sockets + 1 /\ sockets < MaxSockets /\ deaths' = deaths
    BY <1>3, <1>n DEF Register
  <2>2. Cardinality(joined' \ dead') = Cardinality(joined \ dead) + 1
    BY <1>n, <2>1, FS_AddElement
  <2> QED  BY <1>0, <1>n, <2>1, <2>2 DEF SocketInv
<1>4. ASSUME NEW c \in Clients, SocketDies(c)
      PROVE  SocketInv'
  <2>1. /\ c \in joined \ dead /\ joined' \ dead' = (joined \ dead) \ {c}
        /\ sockets' = sockets /\ deaths' = deaths + 1
    BY <1>4 DEF SocketDies
  <2>2. Cardinality(joined' \ dead') = Cardinality(joined \ dead) - 1
    BY <1>n, <2>1, FS_RemoveElement
  <2> QED  BY <1>0, <1>n, <2>1, <2>2 DEF SocketInv
<1>5. ASSUME NEW c \in Clients, Unregister(c) \/ \E syms : Update(c, syms)
      PROVE  SocketInv'
  BY <1>5, <1>s DEF Unregister, Drops, Update
<1>6. ASSUME NEW by \in Callers, Rebuild(by)
      PROVE  SocketInv'
  BY <1>6, <1>s DEF Rebuild, registry
<1>7. ASSUME NEW n \in Streams, DropNext(n)
      PROVE  SocketInv'
  BY <1>7, <1>s DEF DropNext, Drops
<1>8. ASSUME NEW n \in Streams, TaskMoves(n)
      PROVE  SocketInv'
  BY <1>0, <1>8, <1>s, TaskMovesEffect DEF StreamOthers, registry
<1> QED
  BY <1>1, <1>2, <1>3, <1>4, <1>5, <1>6, <1>7, <1>8 DEF QuoteStep, ClientStep

\* Whoever changes what is wanted holds the lock until the tracked task streams it.
LEMMA TaskStep ==
  ASSUME TypeOK, StreamInv, QuoteStep
  PROVE  TaskInv'
<1>0. QuoteTypeOK /\ TaskInv /\ streams \in [Streams -> StreamRec] /\ task \in Streams \cup {None}
  BY DEF TypeOK, QuoteTypeOK, StreamInv
<1>1. CASE QuoteStill \/ MoveAccount
  BY <1>0, <1>1 DEF QuoteStill, MoveAccount, TaskInv, Running, Wanted, registry, connection
<1>2. CASE Crash
  BY <1>2 DEF Crash, TaskInv, Wanted
<1>3. CASE Refresh
  BY <1>0, <1>3 DEF Refresh, Takes, TaskInv, Running, Wanted, registry, connection
<1>4. CASE pins # <<>> /\ Pin(Head(pins))
  BY <1>0, <1>4, Names DEF Pin, TaskInv, Running, Wanted, registry, connection
<1>5. ASSUME NEW c \in Clients, ClientStep(c)
      PROVE  TaskInv'
  <2>1. /\ UNCHANGED <<connection, monitored, subscribed, task, streams>>
        /\ (lock' = lock /\ Wanted' = Wanted) \/ (lock = None /\ lock' = c)
    BY <1>0, <1>5, ClientEffect
  <2>2. task' # None => task' \in Running' /\ streams'[task'].symbols = subscribed' /\ conn' # None
    BY <1>0, <2>1 DEF TaskInv, Running, connection
  <2>3. lock' \in {None, "refresh"} => task' = None \/ subscribed' = Wanted'
    BY <1>0, <2>1, Names DEF TaskInv
  <2> QED  BY <2>2, <2>3 DEF TaskInv
<1>6. ASSUME NEW by \in Callers, Rebuild(by)
      PROVE  TaskInv'
  BY <1>0, <1>6, RebuildEffect DEF TaskInv
<1>7. ASSUME NEW n \in Streams, DropNext(n)
      PROVE  TaskInv'
  <2>1. /\ OnlyStream(n) /\ streams[n].at # "none" /\ streams'[n].at # "none"
        /\ streams'[n].symbols = streams[n].symbols /\ lock = None
        /\ UNCHANGED <<connection, monitored, subscribed, task>>
        /\ lock' = n \/ (lock' = None /\ joined' = joined /\ wants' = wants)
    BY <1>0, <1>7, DropNextEffect
  <2>2. task' # None => task' \in Running' /\ streams'[task'].symbols = subscribed' /\ conn' # None
    BY <1>0, <2>1 DEF TaskInv, Running, connection, OnlyStream
  <2>3. lock' \in {None, "refresh"} => task' = None \/ subscribed' = Wanted'
    BY <1>0, <2>1, Names DEF TaskInv, Wanted
  <2> QED  BY <2>2, <2>3 DEF TaskInv
<1>8. ASSUME NEW n \in Streams, TaskMoves(n)
      PROVE  TaskInv'
  <2>1. /\ OnlyStream(n) /\ streams[n].at # "none" /\ streams'[n].at # "none"
        /\ streams'[n].symbols = streams[n].symbols /\ StreamOthers
    BY <1>0, <1>8, TaskMovesEffect
  <2>2. task' # None => task' \in Running' /\ streams'[task'].symbols = subscribed' /\ conn' # None
    BY <1>0, <2>1 DEF TaskInv, Running, connection, OnlyStream, StreamOthers
  <2>3. lock' \in {None, "refresh"} => task' = None \/ subscribed' = Wanted'
    BY <1>0, <2>1, Names DEF TaskInv, Wanted, StreamOthers, registry
  <2> QED  BY <2>2, <2>3 DEF TaskInv
<1> QED  BY <1>1, <1>2, <1>3, <1>4, <1>5, <1>6, <1>7, <1>8 DEF QuoteStep

\* One element more counts one at most.
LEMMA AddedCount ==
  ASSUME NEW S, NEW x, IsFiniteSet(S)
  PROVE  /\ IsFiniteSet(S \cup {x}) /\ Cardinality(S \cup {x}) \in Nat
         /\ Cardinality(S \cup {x}) <= Cardinality(S) + 1
<1>1. Cardinality(S) \in Nat /\ IsFiniteSet(S \cup {x})
  BY FS_AddElement, FS_CardinalityType
<1>2. Cardinality(S \cup {x}) = IF x \in S THEN Cardinality(S) ELSE Cardinality(S) + 1
  BY FS_AddElement
<1> QED  BY <1>1, <1>2

\* Each task beside the tracked one has cost a socket of its own.
LEMMA OrphanStep ==
  ASSUME TypeOK, StreamInv, QuoteStep
  PROVE  OrphanInv'
<1>0. /\ QuoteTypeOK /\ OrphanInv /\ streams \in [Streams -> StreamRec]
      /\ task \in Streams \cup {None} /\ dead \subseteq Clients
  BY DEF TypeOK, QuoteTypeOK, StreamInv
<1>n. /\ IsFiniteSet(dead \cup Owed) /\ IsFiniteSet(Running \ {task})
      /\ Cardinality(dead \cup Owed) \in Nat
      /\ Cardinality(Running \ {task}) \in Nat /\ Dropping \in {0, 1} /\ deaths \in Nat
  <2>1. Running \ {task} \subseteq Streams
    BY DEF Running
  <2> QED  BY <1>0, <2>1, Counted, FS_Subset
<1>s. ASSUME Running' \ {task'} = Running \ {task}, dead' \cup Owed' \subseteq dead \cup Owed,
             Dropping' = Dropping, deaths' = deaths
      PROVE  OrphanInv'
  <2>1. Cardinality(dead' \cup Owed') <= Cardinality(dead \cup Owed)
        /\ Cardinality(dead' \cup Owed') \in Nat
    BY <1>n, <1>s, FS_Subset, FS_CardinalityType
  <2>2. Cardinality(Running' \ {task'}) = Cardinality(Running \ {task})
    BY <1>s
  <2> QED  BY <1>0, <1>n, <1>s, <2>1, <2>2 DEF OrphanInv
<1>1. CASE QuoteStill \/ MoveAccount
  BY <1>1, <1>s DEF QuoteStill, MoveAccount, Running, Owed, Dropping, registry
<1>2. CASE Crash
  <2>1. task' = None /\ dead' = {} /\ deaths' = 0 /\ streams' = [n \in Streams |-> NoStream]
    BY <1>2 DEF Crash
  <2>2. Running' \ {task'} = {} /\ dead' \cup Owed' = {} /\ Dropping' = 0
    BY <2>1, NoStreamIs DEF Running, Owed, Dropping
  <2> QED  BY <2>1, <2>2, FS_EmptySet DEF OrphanInv
<1>3. CASE Refresh
  BY <1>0, <1>3, <1>s, Names DEF Refresh, Takes, Running, Owed, Dropping, registry
<1>4. CASE pins # <<>> /\ Pin(Head(pins))
  BY <1>0, <1>4, <1>s, Names DEF Pin, Running, Owed, Dropping, registry
<1>5. ASSUME NEW c \in Clients, SocketDies(c)
      PROVE  OrphanInv'
  <2>1. /\ c \notin dead /\ dead' = dead \cup {c} /\ deaths' = deaths + 1
        /\ Running' = Running /\ task' = task /\ Owed' = Owed /\ Dropping' = Dropping
    BY <1>5 DEF SocketDies, Running, Owed, Dropping
  <2>2. dead' \cup Owed' = (dead \cup Owed) \cup {c}
    BY <2>1
  <2>3. /\ Cardinality((dead \cup Owed) \cup {c}) \in Nat
        /\ Cardinality((dead \cup Owed) \cup {c}) <= Cardinality(dead \cup Owed) + 1
    BY <1>n, AddedCount
  <2> HIDE DEF Owed
  <2>4. Cardinality(dead' \cup Owed') <= Cardinality(dead \cup Owed) + 1
        /\ Cardinality(dead' \cup Owed') \in Nat
    BY <2>2, <2>3
  <2> QED  BY <1>0, <1>n, <2>1, <2>4 DEF OrphanInv
<1>6. ASSUME NEW c \in Clients, Unregister(c) \/ \E syms : Register(c, syms) \/ Update(c, syms)
      PROVE  OrphanInv'
  <2>1. /\ dead' \subseteq dead /\ deaths' = deaths /\ lock = None /\ lock' = c
        /\ streams' = streams /\ task' = task
    BY <1>6 DEF Unregister, Register, Update, Drops, Takes
  <2> QED  BY <1>0, <1>s, <2>1, Names DEF Running, Owed, Dropping
<1>7. ASSUME NEW by \in Callers, Rebuild(by)
      PROVE  OrphanInv'
  <2>1. /\ Owed' \subseteq Owed /\ Dropping' = 0 /\ dead' = dead /\ deaths' = deaths
        /\ Cardinality(Running' \ {task'}) <= Cardinality(Running \ {task}) + Dropping
    BY <1>0, <1>7, RebuildEffect DEF registry
  <2>2. Cardinality(dead' \cup Owed') <= Cardinality(dead \cup Owed)
        /\ Cardinality(dead' \cup Owed') \in Nat
    BY <1>n, <2>1, FS_Subset, FS_CardinalityType
  <2>3. Cardinality(Running' \ {task'}) \in Nat
    <3>1. Running' \ {task'} \subseteq Streams
      BY DEF Running
    <3> QED  BY <3>1, QuoteAssumption, FS_Subset, FS_CardinalityType
  <2> QED  BY <1>0, <1>n, <2>1, <2>2, <2>3 DEF OrphanInv
<1>8. ASSUME NEW n \in Streams, DropNext(n)
      PROVE  OrphanInv'
  <2>1. /\ streams' \in [Streams -> StreamRec] /\ OnlyStream(n)
        /\ streams[n].at = "drop" /\ streams'[n].at # "none"
        /\ lock = None /\ task' = task /\ deaths' = deaths
    BY <1>0, <1>8, DropNextEffect
  <2>2. PICK c \in streams[n].drop :
          /\ streams'[n].drop = streams[n].drop \ {c}
          /\ \/ lock' = n /\ dead' = dead \ {c}
             \/ lock' = None /\ dead' = dead
    BY <1>0, <1>8, DropNextEffect DEF Drops
  <2>3. Running' = Running
    BY <2>1 DEF Running, OnlyStream
  <2>4. Dropping = 0
    BY <1>0, <2>1, Names DEF Dropping
  <2>5. CASE task = n /\ lock' = n
    <3>1. Owed = streams[n].drop /\ Owed' \subseteq Owed \ {c} /\ Dropping' = 1 /\ dead' = dead \ {c}
      BY <2>1, <2>2, <2>5, Names DEF Owed, Dropping
    <3>2. c \in dead \cup Owed /\ dead' \cup Owed' \subseteq (dead \cup Owed) \ {c}
      BY <2>2, <3>1
    <3>3. IsFiniteSet((dead \cup Owed) \ {c})
          /\ Cardinality((dead \cup Owed) \ {c}) = Cardinality(dead \cup Owed) - 1
      BY <1>n, <3>2, FS_RemoveElement
    <3>4. Cardinality(dead' \cup Owed') <= Cardinality(dead \cup Owed) - 1
          /\ Cardinality(dead' \cup Owed') \in Nat
      BY <3>2, <3>3, FS_Subset, FS_CardinalityType
    <3>5. Cardinality(Running' \ {task'}) = Cardinality(Running \ {task})
      BY <2>1, <2>3
    <3> QED  BY <1>0, <1>n, <2>1, <2>4, <3>1, <3>4, <3>5 DEF OrphanInv
  <2>6. CASE ~(task = n /\ lock' = n)
    <3>1. Dropping' = 0
      BY <2>1, <2>2, <2>6, Names DEF Dropping
    <3>2. Owed' \subseteq Owed
      BY <1>0, <2>1, <2>2, Names DEF Owed, OnlyStream
    <3>3. dead' \cup Owed' \subseteq dead \cup Owed
      BY <2>2, <3>2
    <3> QED  BY <1>s, <2>1, <2>3, <2>4, <3>1, <3>3
  <2> QED  BY <2>5, <2>6
<1>9. ASSUME NEW n \in Streams, TaskMoves(n)
      PROVE  OrphanInv'
  <2>1. /\ streams' \in [Streams -> StreamRec] /\ OnlyStream(n) /\ StreamOthers
        /\ streams[n].at # "none" /\ streams'[n].at # "none"
        /\ streams'[n].at = "drop" => streams'[n].drop \subseteq dead
    BY <1>0, <1>9, TaskMovesEffect
  <2>2. Running' = Running /\ task' = task /\ Dropping' = Dropping /\ dead' = dead /\ deaths' = deaths
    BY <2>1 DEF Running, OnlyStream, StreamOthers, Dropping, registry
  <2>3. Owed' \subseteq dead \cup Owed
    BY <1>0, <2>1, <2>2, Names DEF Owed, OnlyStream
  <2>4. dead' \cup Owed' \subseteq dead \cup Owed /\ Running' \ {task'} = Running \ {task}
    BY <2>2, <2>3
  <2> QED  BY <1>s, <2>2, <2>4
<1> QED
  BY <1>1, <1>2, <1>3, <1>4, <1>5, <1>6, <1>7, <1>8, <1>9 DEF QuoteStep, ClientStep

-----------------------------------------------------------------------------
(* The judging of a frame                                                  *)

FireRec == [at : FirePlaces, sym : Symbols \cup {None}, todo : SUBSET DOMAIN Rules,
            seen : SUBSET Keys, rule : RuleSet \cup {None}, t : Nat]

\* Only the judging in the task n changes.
OnlyFire(n) == \A m \in Streams : m # n => fire'[m] = fire[m]

\* A task that judges nothing.
LEMMA NoFireIs ==
  NoFire \in FireRec /\ NoFire.at = "none" /\ NoFire.todo = {}
BY DEF NoFire, FireRec, FirePlaces

\* An alert that goes on keeps the rest of its record.
LEMMA FireToEffect ==
  ASSUME NEW n \in Streams, NEW at \in FirePlaces, fire \in [Streams -> FireRec],
         FireTo(n, [fire[n] EXCEPT !.at = at])
  PROVE  /\ fire' \in [Streams -> FireRec] /\ OnlyFire(n)
         /\ fire'[n].at = at /\ fire'[n].sym = fire[n].sym /\ fire'[n].todo = fire[n].todo
         /\ fire'[n].seen = fire[n].seen /\ fire'[n].rule = fire[n].rule
         /\ fire'[n].t = fire[n].t
<1>1. PICK r \in FireRec : r = fire[n]
  OBVIOUS
<1> DEFINE d == [r EXCEPT !.at = at]
<1>2. d \in FireRec /\ d.at = at /\ d.sym = r.sym /\ d.todo = r.todo /\ d.seen = r.seen
      /\ d.rule = r.rule /\ d.t = r.t
  BY DEF FireRec
<1>3. fire' = [fire EXCEPT ![n] = d]
  BY <1>1 DEF FireTo
<1> HIDE DEF d
<1> QED  BY <1>1, <1>2, <1>3 DEF OnlyFire

\* A judging that ends.
LEMMA FireNoneEffect ==
  ASSUME NEW n \in Streams, fire \in [Streams -> FireRec], FireTo(n, NoFire)
  PROVE  fire' \in [Streams -> FireRec] /\ OnlyFire(n) /\ fire'[n] = NoFire
BY NoFireIs DEF FireTo, OnlyFire

\* The record of a rule that fires.
Opened(f, r, done) == [f EXCEPT !.at = "open", !.rule = r, !.todo = @ \ done]

\* It waits for the alert, with the rest of the rules to do.
LEMMA OpenedEffect ==
  ASSUME NEW f \in FireRec, NEW r \in RuleSet, NEW done
  PROVE  LET g == Opened(f, r, done)
         IN  /\ g \in FireRec /\ g.at = "open" /\ g.rule = r /\ g.sym = f.sym
             /\ g.seen = f.seen /\ g.t = f.t /\ g.todo \subseteq f.todo
<1> DEFINE a == [f EXCEPT !.at = "open"]
           b == [a EXCEPT !.rule = r]
           c == [b EXCEPT !.todo = f.todo \ done]
           g == Opened(f, r, done)
<1>1. a \in FireRec /\ a.at = "open" /\ a.sym = f.sym /\ a.todo = f.todo /\ a.seen = f.seen
      /\ a.t = f.t
  BY DEF FireRec, FirePlaces
<1>0. g = [[a EXCEPT !.rule = r] EXCEPT !.todo = f.todo \ done]
  BY DEF FireRec, Opened
<1> HIDE DEF a
<1>2. b \in FireRec /\ b.at = a.at /\ b.sym = a.sym /\ b.todo = a.todo /\ b.seen = a.seen
      /\ b.t = a.t /\ b.rule = r
  BY <1>1 DEF FireRec
<1>3. g = [b EXCEPT !.todo = f.todo \ done]
  BY <1>0
<1> HIDE DEF b
<1>4. f.todo \ done \in SUBSET DOMAIN Rules
  BY DEF FireRec
<1>5. c \in FireRec /\ c.at = b.at /\ c.sym = b.sym /\ c.seen = b.seen
      /\ c.t = b.t /\ c.rule = b.rule /\ c.todo = f.todo \ done
  BY <1>2, <1>4 DEF FireRec
<1>6. g = c
  BY <1>3
<1> HIDE DEF c, g
<1>7. /\ g \in FireRec /\ g.at = "open" /\ g.rule = r /\ g.sym = f.sym
      /\ g.seen = f.seen /\ g.t = f.t /\ g.todo \subseteq f.todo
  BY <1>1, <1>2, <1>5, <1>6
<1> QED  BY <1>7 DEF g

\* The rooms once the keys of judged are done, before an alert takes one.
More(f, judged, k) ==
  IF k \in judged /\ (k \in f.seen) # cond[k] THEN room[k] + 1 ELSE room[k]

\* No rule fires: the frame goes out.
JudgedNone(n, f, judged) ==
  /\ FireTo(n, NoFire) /\ FanOut(n, f.sym)
  /\ room' = [k \in Keys |-> More(f, judged, k)] /\ slack' = slack

\* The rule of h fires.
JudgedHit(n, f, judged, g, h) ==
  /\ g \in FireRec /\ g.at = "open" /\ g.sym = f.sym /\ g.t = f.t /\ g.todo \subseteq f.todo
  /\ g.rule \in RuleSet /\ h = KeyAt(g, g.rule) /\ h \in judged /\ Fires(h, f) /\ f.todo # {}
  /\ FireTo(n, g) /\ Held(n)
  /\ room' = [k \in Keys |-> IF k = h THEN More(f, judged, k) - 1 ELSE More(f, judged, k)]
  /\ slack' = IF Overlapped(n, h) THEN [slack EXCEPT ![h] = @ + 1] ELSE slack

\* The judging ends in one of the two.
LEMMA JudgeEffect ==
  ASSUME NEW n \in Streams, NEW f \in FireRec,
         \A i \in f.todo : KeyAt(f, Rules[i]) \in Keys, Judge(n, f)
  PROVE  \E judged \in SUBSET Keys :
           /\ edge' = EdgeAfter(f, judged)
           /\ JudgedNone(n, f, judged) \/ \E g, h : JudgedHit(n, f, judged, g, h)
<1> DEFINE key(i) == KeyAt(f, Rules[i])
           hits   == {i \in f.todo : Fires(key(i), f)}
           done   == {i \in f.todo : \A j \in hits : i <= j}
           judged == {key(i) : i \in done}
<1>1. judged \in SUBSET Keys
  OBVIOUS
<1>2. edge' = EdgeAfter(f, judged)
  BY DEF Judge
<1>3. CASE /\ fire' = [fire EXCEPT ![n] = NoFire]
           /\ FanOut(n, f.sym)
           /\ room' = [k \in Keys |-> More(f, judged, k)]
           /\ slack' = slack
  BY <1>1, <1>2, <1>3 DEF JudgedNone, FireTo
<1>4. ASSUME NEW hit \in hits \cap done,
             fire' = [fire EXCEPT ![n] = [f EXCEPT !.at = "open", !.rule = Rules[hit],
                                                   !.todo = @ \ done]],
             Held(n),
             room' = [k \in Keys |-> IF k = key(hit) THEN More(f, judged, k) - 1
                                     ELSE More(f, judged, k)],
             slack' = IF Overlapped(n, key(hit)) THEN [slack EXCEPT ![key(hit)] = @ + 1] ELSE slack
      PROVE  \E g, h : JudgedHit(n, f, judged, g, h)
  <2>1. Rules[hit] \in RuleSet /\ hit \in f.todo /\ Fires(key(hit), f)
    BY MonitorAssumption DEF FireRec
  <2> DEFINE g == Opened(f, Rules[hit], done)
  <2>2. /\ g \in FireRec /\ g.at = "open" /\ g.rule = Rules[hit] /\ g.sym = f.sym
        /\ g.t = f.t /\ g.todo \subseteq f.todo
    <3> HIDE DEF done
    <3> QED  BY <2>1, OpenedEffect
  <2>3. FireTo(n, g)
    BY <1>4 DEF FireTo, Opened
  <2>4. key(hit) \in judged
    OBVIOUS
  <2> HIDE DEF g
  <2>5. key(hit) = KeyAt(g, g.rule)
    BY <2>2 DEF KeyAt
  <2> HIDE DEF judged, key
  <2>6. JudgedHit(n, f, judged, g, key(hit))
    BY <1>4, <2>1, <2>2, <2>3, <2>4, <2>5 DEF JudgedHit
  <2> QED  BY <2>6
<1>5. \/ /\ fire' = [fire EXCEPT ![n] = NoFire]
         /\ FanOut(n, f.sym)
         /\ room' = [k \in Keys |-> More(f, judged, k)]
         /\ slack' = slack
      \/ \E hit \in hits \cap done :
           /\ fire' = [fire EXCEPT ![n] = [f EXCEPT !.at = "open", !.rule = Rules[hit],
                                                    !.todo = @ \ done]]
           /\ Held(n)
           /\ room' = [k \in Keys |-> IF k = key(hit) THEN More(f, judged, k) - 1
                                      ELSE More(f, judged, k)]
           /\ slack' = IF Overlapped(n, key(hit)) THEN [slack EXCEPT ![key(hit)] = @ + 1] ELSE slack
  BY DEF Judge, More
<1> QED  BY <1>1, <1>2, <1>3, <1>4, <1>5

\* A task begins or goes on to judge.
Judges(n) == FireMark(n) \/ \E s \in Symbols : Observe(n, s)

\* What is judged is a frame of the task, by rules that watch it.
LEMMA JudgesEffect ==
  ASSUME NEW n \in Streams, TypeOK, FireInv, Judges(n)
  PROVE  /\ UNCHANGED <<faults, market, rulesVars, last, alert, pushedAt>>
         /\ fire[n].at \in {"none", "mark"} /\ streams[n].at \in {"idle", "observe"}
         /\ \E f \in FireRec, judged \in SUBSET Keys :
              /\ \A i \in f.todo : KeyAt(f, Rules[i]) \in Keys
              /\ f.todo # {} => up
              /\ edge' = EdgeAfter(f, judged)
              /\ JudgedNone(n, f, judged) \/ \E g, h : JudgedHit(n, f, judged, g, h)
<1>0. fire[n] \in FireRec
  BY DEF TypeOK, FireRec
<1>1. CASE FireMark(n)
  <2> DEFINE f == [fire[n] EXCEPT !.at = "none"]
  <2>1. /\ Judge(n, f) /\ fire[n].at = "mark"
        /\ UNCHANGED <<faults, market, rulesVars, last, alert, pushedAt>>
    BY <1>1 DEF FireMark
  <2>2. f \in FireRec /\ f.sym = fire[n].sym /\ f.todo = fire[n].todo
    BY <1>0 DEF FireRec, FirePlaces
  <2> HIDE DEF f
  <2>3. /\ \A i \in f.todo : KeyAt(f, Rules[i]) \in Keys
        /\ streams[n].at = "observe" /\ up
    BY <2>1, <2>2 DEF FireInv, KeyAt
  <2> QED  BY <2>1, <2>2, <2>3, JudgeEffect
<1>2. ASSUME NEW s \in Symbols, Observe(n, s)
      PROVE  /\ UNCHANGED <<faults, market, rulesVars, last, alert, pushedAt>>
             /\ fire[n].at \in {"none", "mark"} /\ streams[n].at \in {"idle", "observe"}
             /\ \E f \in FireRec, judged \in SUBSET Keys :
                  /\ \A i \in f.todo : KeyAt(f, Rules[i]) \in Keys
                  /\ f.todo # {} => up
                  /\ edge' = EdgeAfter(f, judged)
                  /\ JudgedNone(n, f, judged) \/ \E g, h : JudgedHit(n, f, judged, g, h)
  <2> DEFINE watching == {i \in DOMAIN Rules : Rules[i] \in index /\ s \in Scope[Rules[i]]}
             seen == {k \in Keys : cond[k]}
             todo == IF up THEN watching ELSE {}
             f == [NoFire EXCEPT !.sym = s, !.t = now, !.seen = seen, !.todo = todo]
  <2>1. /\ Judge(n, f) /\ streams[n].at = "idle"
        /\ UNCHANGED <<faults, market, rulesVars, last, alert, pushedAt>>
    BY <1>2 DEF Observe, Receives
  <2>2. /\ now \in Nat /\ seen \in SUBSET Keys /\ todo \in SUBSET DOMAIN Rules
        /\ todo # {} => up
        /\ \A i \in todo : s \in Scope[Rules[i]] /\ Rules[i] \in RuleSet
    BY MonitorAssumption DEF TypeOK
  <2> HIDE DEF watching, seen, todo
  <2>4. f \in FireRec /\ f.sym = s /\ f.todo = todo
    <3> DEFINE a == [NoFire EXCEPT !.sym = s]
               b == [a EXCEPT !.t = now]
               c == [b EXCEPT !.seen = seen]
               d == [c EXCEPT !.todo = todo]
    <3>1. a \in FireRec /\ a.sym = s
      BY DEF NoFire, FireRec, FirePlaces
    <3>2. f = [[[a EXCEPT !.t = now] EXCEPT !.seen = seen] EXCEPT !.todo = todo]
      OBVIOUS
    <3> HIDE DEF a, f
    <3>3. b \in FireRec /\ b.sym = s
      BY <2>2, <3>1 DEF FireRec
    <3>4. f = [[b EXCEPT !.seen = seen] EXCEPT !.todo = todo]
      BY <3>2
    <3> HIDE DEF b
    <3>5. c \in FireRec /\ c.sym = s
      BY <2>2, <3>3 DEF FireRec
    <3>6. f = [c EXCEPT !.todo = todo]
      BY <3>4
    <3> HIDE DEF c
    <3> QED  BY <2>2, <3>5, <3>6 DEF FireRec
  <2> HIDE DEF f
  <2>5. /\ \A i \in f.todo : KeyAt(f, Rules[i]) \in Keys
        /\ f.todo # {} => up
    BY <2>2, <2>4 DEF KeyAt, Keys
  <2>6. fire[n].at = "none"
    BY <2>1 DEF FireInv
  <2> QED  BY <2>1, <2>4, <2>5, <2>6, JudgeEffect
<1> QED  BY <1>1, <1>2 DEF Judges

-----------------------------------------------------------------------------
(* Types                                                                   *)

MarketOK == now \in Nat /\ cond \in [Keys -> BOOLEAN] /\ days \in Nat

RulesOK ==
  /\ rules \subseteq RuleSet /\ due \in Nat
  /\ reading \in {None} \cup SUBSET RuleSet
  /\ index \subseteq RuleSet /\ pins \in Seq(SUBSET Symbols)
  /\ up \in BOOLEAN /\ missed \in BOOLEAN /\ edits \in Nat

GateOK ==
  /\ edge \in [Keys -> BOOLEAN] /\ last \in [Keys -> Nat \cup {None}]
  /\ alert \in [Keys -> Nat \cup {None}] /\ pushedAt \in [Keys -> Nat \cup {None}]

HistoryOK == slack \in [Keys -> Int] /\ room \in [Keys -> Int]

\* The parts of the type invariant.
LEMMA TypeParts ==
  TypeOK <=> /\ QuoteTypeOK /\ MarketOK /\ RulesOK /\ GateOK /\ HistoryOK
             /\ fire \in [Streams -> FireRec]
BY DEF TypeOK, MarketOK, RulesOK, GateOK, HistoryOK, FireRec

FireVars == <<edge, last, alert, fire, pushedAt, slack, room>>

\* Who touches the market and the rules.
LEMMA MarketStep ==
  ASSUME TypeOK, Next
  PROVE  MarketOK'
<1>1. MarketOK
  BY TypeParts
<1>2. ASSUME NEW k \in Keys, Flip(k)
      PROVE  MarketOK'
  BY <1>1, <1>2 DEF Flip, MarketOK
<1>3. CASE Tick
  BY <1>1, <1>3 DEF Tick, MarketOK
<1>4. CASE NewDay
  BY <1>1, <1>4 DEF NewDay, MarketOK
<1>5. market' = market \/ Tick \/ NewDay \/ \E k \in Keys : Flip(k)
  BY DEF Next, Crash, StartUp, EditRule, ReloadRead, ReloadIndex, PinNext, Quietly, RebuildCuts,
         Observe, FireInsert, FirePush, FireRecord, FireMark, FireOnly, monitorVars
<1>6. CASE market' = market
  BY <1>1, <1>6 DEF market, MarketOK
<1> QED  BY <1>2, <1>3, <1>4, <1>5, <1>6

\* Who touches the rules, the index and the pins.
LEMMA RulesActions ==
  ASSUME Next
  PROVE  \/ rulesVars' = rulesVars
         \/ Crash \/ StartUp \/ ReloadRead \/ ReloadIndex \/ PinNext
         \/ \E r \in RuleSet : EditRule(r)
BY DEF Next, Tick, NewDay, Flip, Quietly, RebuildCuts,
       Observe, FireInsert, FirePush, FireRecord, FireMark, FireOnly, monitorVars

\* The rules keep their types.
LEMMA RulesStep ==
  ASSUME TypeOK, Next
  PROVE  RulesOK'
<1>1. RulesOK /\ \A rs \in SUBSET RuleSet : SymbolsOf(rs) \in SUBSET Symbols
  BY TypeParts, MonitorAssumption DEF SymbolsOf
<1>2. ASSUME NEW r \in RuleSet, EditRule(r)
      PROVE  RulesOK'
  BY <1>1, <1>2 DEF EditRule, RulesOK
<1>3. CASE ReloadRead
  <2>1. due' \in Nat
    BY <1>1, <1>3 DEF ReloadRead, RulesOK
  <2>2. reading' \in {None} \cup SUBSET RuleSet /\ missed' \in BOOLEAN
    BY <1>1, <1>3 DEF ReloadRead, RulesOK
  <2>3. UNCHANGED <<rules, index, pins, up, edits>>
    BY <1>3 DEF ReloadRead
  <2> QED  BY <1>1, <2>1, <2>2, <2>3 DEF RulesOK
<1>4. CASE ReloadIndex
  <2>1. reading \in SUBSET RuleSet /\ SymbolsOf(reading) \in SUBSET Symbols
    BY <1>1, <1>4 DEF ReloadIndex, RulesOK
  <2> QED  BY <1>1, <1>4, <2>1 DEF ReloadIndex, Queued, RulesOK
<1>5. CASE PinNext
  BY <1>1, <1>5 DEF PinNext, RulesOK
<1>6. CASE StartUp
  BY <1>1, <1>6 DEF StartUp, RulesOK
<1>7. CASE Crash
  <2>1. /\ index' = rules /\ pins' = <<SymbolsOf(rules)>> /\ rules' = rules /\ edits' = edits
        /\ due' = 0 /\ reading' = None /\ up' = FALSE /\ missed' = FALSE
    BY <1>7 DEF Crash
  <2>2. pins' \in Seq(SUBSET Symbols)
    BY <1>1, <2>1 DEF RulesOK
  <2> QED  BY <1>1, <2>1, <2>2 DEF RulesOK
<1>8. CASE rulesVars' = rulesVars
  BY <1>1, <1>8 DEF rulesVars, RulesOK
<1> QED  BY <1>2, <1>3, <1>4, <1>5, <1>6, <1>7, <1>8, RulesActions

\* Who touches the gate, the alerts and their history.
LEMMA FireActions ==
  ASSUME Next
  PROVE  \/ FireVars' = FireVars
         \/ NewDay \/ StartUp \/ Crash
         \/ \E k \in Keys : Flip(k)
         \/ \E by \in Callers : RebuildCuts(by)
         \/ \E n \in Streams : Judges(n) \/ FireInsert(n) \/ FirePush(n) \/ FireRecord(n)
BY DEF Next, Tick, EditRule, ReloadRead, ReloadIndex, PinNext, Quietly, Judges, FireVars,
       monitorVars, gate, history

\* The alert under way in n, on its way.
AlertMoves(n, from, to) ==
  /\ fire[n].at = from
  /\ fire' \in [Streams -> FireRec] /\ OnlyFire(n)
  /\ fire'[n].at = to /\ fire'[n].sym = fire[n].sym /\ fire'[n].todo = fire[n].todo
  /\ fire'[n].seen = fire[n].seen /\ fire'[n].rule = fire[n].rule /\ fire'[n].t = fire[n].t

\* Its row is written, or not, or the judging ends there.
LEMMA FireInsertEffect ==
  ASSUME NEW n \in Streams, TypeOK, FireInsert(n)
  PROVE  /\ UNCHANGED <<edge, last, pushedAt, slack, room>> /\ FireOnly
         /\ \/ AlertMoves(n, "open", "push") /\ streams' = streams
            \/ /\ fire[n].at = "open" /\ fire' \in [Streams -> FireRec] /\ OnlyFire(n)
               /\ fire'[n] = NoFire /\ FanOut(n, fire[n].sym)
         /\ alert' = alert \/ alert' = [alert EXCEPT ![FireKey(n)] = fire[n].t]
<1>1. fire \in [Streams -> FireRec] /\ "push" \in FirePlaces
  BY TypeParts DEF FirePlaces
<1>2. /\ UNCHANGED <<edge, last, pushedAt, slack, room>> /\ FireOnly
      /\ fire[n].at = "open"
      /\ alert' = alert \/ alert' = [alert EXCEPT ![FireKey(n)] = fire[n].t]
      /\ \/ FireTo(n, [fire[n] EXCEPT !.at = "push"]) /\ streams' = streams
         \/ FireTo(n, NoFire) /\ FanOut(n, fire[n].sym)
  BY DEF FireInsert, FireOnly, history
<1>3. CASE FireTo(n, [fire[n] EXCEPT !.at = "push"]) /\ streams' = streams
  BY <1>1, <1>2, <1>3, FireToEffect DEF AlertMoves
<1>4. CASE FireTo(n, NoFire) /\ FanOut(n, fire[n].sym)
  BY <1>1, <1>2, <1>4, FireNoneEffect
<1> QED  BY <1>2, <1>3, <1>4

\* It is pushed, or refused.
LEMMA FirePushEffect ==
  ASSUME NEW n \in Streams, TypeOK, FirePush(n)
  PROVE  /\ UNCHANGED <<streams, edge, last, alert, room>> /\ FireOnly
         /\ \/ /\ AlertMoves(n, "push", "sent")
               /\ pushedAt' = [pushedAt EXCEPT ![FireKey(n)] = fire[n].t]
               /\ slack' = IF Soon(FireKey(n), fire[n].t)
                           THEN [slack EXCEPT ![FireKey(n)] = @ - 1] ELSE slack
            \/ AlertMoves(n, "push", "failed") /\ pushedAt' = pushedAt /\ slack' = slack
<1>1. fire \in [Streams -> FireRec] /\ "sent" \in FirePlaces /\ "failed" \in FirePlaces
  BY TypeParts DEF FirePlaces
<1>2. UNCHANGED <<streams, edge, last, alert, room>> /\ FireOnly /\ fire[n].at = "push"
  BY DEF FirePush, FireOnly
<1>3. CASE /\ FireTo(n, [fire[n] EXCEPT !.at = "sent"])
           /\ pushedAt' = [pushedAt EXCEPT ![FireKey(n)] = fire[n].t]
           /\ slack' = IF Soon(FireKey(n), fire[n].t)
                       THEN [slack EXCEPT ![FireKey(n)] = @ - 1] ELSE slack
  <2>1. AlertMoves(n, "push", "sent")
    BY <1>1, <1>2, <1>3, FireToEffect DEF AlertMoves
  <2> QED  BY <1>2, <1>3, <2>1
<1>4. CASE FireTo(n, [fire[n] EXCEPT !.at = "failed"]) /\ pushedAt' = pushedAt /\ slack' = slack
  <2>1. AlertMoves(n, "push", "failed")
    BY <1>1, <1>2, <1>4, FireToEffect DEF AlertMoves
  <2> QED  BY <1>2, <1>4, <2>1
<1> QED  BY <1>3, <1>4 DEF FirePush, Soon

\* Its time is recorded.
LEMMA FireRecordEffect ==
  ASSUME NEW n \in Streams, TypeOK, FireRecord(n)
  PROVE  /\ UNCHANGED <<streams, edge, alert, pushedAt, room>> /\ FireOnly
         /\ AlertMoves(n, "sent", "mark") \/ AlertMoves(n, "failed", "mark")
         /\ last' = [last EXCEPT ![FireKey(n)] = fire[n].t]
         /\ slack' = IF last[FireKey(n)] # None /\ fire[n].t < last[FireKey(n)]
                     THEN [slack EXCEPT ![FireKey(n)] = @ + 1] ELSE slack
<1>1. fire \in [Streams -> FireRec] /\ "mark" \in FirePlaces
  BY TypeParts DEF FirePlaces
<1>2. /\ UNCHANGED <<streams, edge, alert, pushedAt, room>> /\ FireOnly
      /\ fire[n].at \in {"sent", "failed"} /\ FireTo(n, [fire[n] EXCEPT !.at = "mark"])
      /\ last' = [last EXCEPT ![FireKey(n)] = fire[n].t]
      /\ slack' = IF last[FireKey(n)] # None /\ fire[n].t < last[FireKey(n)]
                  THEN [slack EXCEPT ![FireKey(n)] = @ + 1] ELSE slack
  BY DEF FireRecord, FireOnly
<1>3. AlertMoves(n, "sent", "mark") \/ AlertMoves(n, "failed", "mark")
  BY <1>1, <1>2, FireToEffect DEF AlertMoves
<1> QED  BY <1>2, <1>3

\* The key of an alert under way is one.
LEMMA FireKeys ==
  ASSUME NEW n \in Streams, TypeOK, FireInv, fire[n].at # "none"
  PROVE  FireKey(n) \in Keys /\ fire[n].t \in Nat
BY TypeParts DEF FireInv, FireRec

\* The gate and the times keep their types.
LEMMA GateStep ==
  ASSUME TypeOK, FireInv, Next
  PROVE  GateOK'
<1>1. GateOK /\ ForKeys(FALSE) \in [Keys -> BOOLEAN] /\ ForKeys(None) \in [Keys -> Nat \cup {None}]
  BY TypeParts DEF ForKeys
<1>2. CASE FireVars' = FireVars
  BY <1>1, <1>2 DEF FireVars, GateOK
<1>3. CASE NewDay
  BY <1>1, <1>3 DEF NewDay, GateOK
<1>4. CASE StartUp
  BY <1>1, <1>4 DEF StartUp, Rehydrated, GateOK
<1>5. CASE Crash
  BY <1>1, <1>5 DEF Crash, GateOK
<1>6. ASSUME NEW k \in Keys, Flip(k)
      PROVE  GateOK'
  BY <1>1, <1>6 DEF Flip, GateOK, gate
<1>7. ASSUME NEW by \in Callers, RebuildCuts(by)
      PROVE  GateOK'
  BY <1>1, <1>7 DEF RebuildCuts, GateOK, gate
<1>8. ASSUME NEW n \in Streams, Judges(n)
      PROVE  GateOK'
  <2>1. PICK f, judged : edge' = EdgeAfter(f, judged)
    BY <1>8, JudgesEffect
  <2>2. edge' \in [Keys -> BOOLEAN]
    <3> DEFINE e(k) == IF k \in judged THEN k \in f.seen ELSE edge[k]
    <3>1. \A k \in Keys : e(k) \in BOOLEAN
      <4>1. \A k \in Keys : edge[k] \in BOOLEAN
        BY <1>1 DEF GateOK
      <4>2. ASSUME NEW k \in Keys, k \in judged
            PROVE  (IF k \in judged THEN k \in f.seen ELSE edge[k]) \in BOOLEAN
        <5>1. CASE k \in f.seen
          BY <4>2, <5>1
        <5>2. CASE k \notin f.seen
          BY <4>2, <5>2
        <5> QED  BY <5>1, <5>2
      <4>3. ASSUME NEW k \in Keys, k \notin judged
            PROVE  (IF k \in judged THEN k \in f.seen ELSE edge[k]) \in BOOLEAN
        BY <4>1, <4>3
      <4> QED  BY <4>2, <4>3
    <3>2. edge' = [k \in Keys |-> e(k)]
      BY <2>1 DEF EdgeAfter
    <3> HIDE DEF e
    <3> QED  BY <3>1, <3>2
  <2> QED  BY <1>1, <1>8, <2>2, JudgesEffect DEF GateOK
<1>9. ASSUME NEW n \in Streams, FireInsert(n)
      PROVE  GateOK'
  <2>1. FireKey(n) \in Keys /\ fire[n].t \in Nat
    BY <1>9, FireKeys DEF FireInsert
  <2> QED  BY <1>1, <1>9, <2>1, FireInsertEffect DEF GateOK
<1>10. ASSUME NEW n \in Streams, FirePush(n)
       PROVE  GateOK'
  <2>1. FireKey(n) \in Keys /\ fire[n].t \in Nat
    BY <1>10, FireKeys DEF FirePush
  <2> QED  BY <1>1, <1>10, <2>1, FirePushEffect DEF GateOK
<1>11. ASSUME NEW n \in Streams, FireRecord(n)
       PROVE  GateOK'
  <2>1. FireKey(n) \in Keys /\ fire[n].t \in Nat
    BY <1>11, FireKeys DEF FireRecord
  <2> QED  BY <1>1, <1>11, <2>1, FireRecordEffect DEF GateOK
<1> QED
  BY <1>2, <1>3, <1>4, <1>5, <1>6, <1>7, <1>8, <1>9, <1>10, <1>11, FireActions

\* The tasks cut off before their record.
CutSent(k) == {n \in Running : /\ streams'[n] # streams[n]
                               /\ fire[n].at = "sent" /\ FireKey(n) = k}

\* What a rebuild cuts.
LEMMA CutsEffect ==
  ASSUME NEW by \in Callers, TypeOK, RebuildCuts(by)
  PROVE  /\ Rebuild(by) /\ UNCHANGED <<market, rulesVars, edge, last, alert, pushedAt, room>>
         /\ fire' \in [Streams -> FireRec]
         /\ \A n \in Streams : fire'[n] = IF n \in Running /\ streams'[n] # streams[n]
                                          THEN NoFire ELSE fire[n]
         /\ \A k \in Keys : slack'[k] = slack[k] + Cardinality(CutSent(k))
         /\ \A k \in Keys : IsFiniteSet(CutSent(k)) /\ Cardinality(CutSent(k)) \in Nat
         /\ slack' \in [Keys -> Int]
<1> DEFINE cut == {n \in Running : streams'[n] # streams[n]}
<1>1. /\ Rebuild(by) /\ UNCHANGED <<market, rulesVars, edge, last, alert, pushedAt, room>>
      /\ fire' = [n \in Streams |-> IF n \in cut THEN NoFire ELSE fire[n]]
      /\ slack' = [k \in Keys |->
           slack[k] + Cardinality({n \in cut : fire[n].at = "sent" /\ FireKey(n) = k})]
  BY DEF RebuildCuts, gate
<1>2. fire \in [Streams -> FireRec] /\ slack \in [Keys -> Int]
  BY TypeParts DEF HistoryOK
<1>3. ASSUME NEW k \in Keys
      PROVE  /\ {n \in cut : fire[n].at = "sent" /\ FireKey(n) = k} = CutSent(k)
             /\ IsFiniteSet(CutSent(k)) /\ Cardinality(CutSent(k)) \in Nat
  <2>1. CutSent(k) \subseteq Streams
    BY DEF CutSent, Running
  <2>2. IsFiniteSet(CutSent(k))
    BY <2>1, QuoteAssumption, FS_Subset
  <2>3. {n \in cut : fire[n].at = "sent" /\ FireKey(n) = k} = CutSent(k)
    BY DEF CutSent
  <2> QED  BY <2>2, <2>3, FS_CardinalityType
<1>4. slack' = [k \in Keys |-> slack[k] + Cardinality(CutSent(k))]
  BY <1>1, <1>3
<1>5. fire' \in [Streams -> FireRec]
  BY <1>1, <1>2, NoFireIs
<1>6. \A n \in Streams : fire'[n] = IF n \in Running /\ streams'[n] # streams[n]
                                    THEN NoFire ELSE fire[n]
  BY <1>1
<1> QED  BY <1>1, <1>2, <1>3, <1>4, <1>5, <1>6

\* The counts stay numbers.
LEMMA HistoryStep ==
  ASSUME TypeOK, FireInv, Next
  PROVE  HistoryOK'
<1>1. HistoryOK
  BY TypeParts
<1>2. CASE FireVars' = FireVars
  BY <1>1, <1>2 DEF FireVars, HistoryOK
<1>3. CASE NewDay
  BY <1>1, <1>3 DEF NewDay, HistoryOK
<1>4. CASE StartUp
  <2>1. room' = room
    BY <1>4 DEF StartUp
  <2>2. slack' = slack
        \/ slack' = [k \in Keys |-> IF pushedAt[k] = None THEN slack[k] ELSE slack[k] + 1]
    BY <1>4 DEF StartUp
  <2> QED  BY <1>1, <2>1, <2>2 DEF HistoryOK
<1>5. CASE Crash
  <2>1. /\ slack' = [k \in Keys |-> IF Forgotten(k) THEN slack[k] + 1 ELSE slack[k]]
        /\ room' = [k \in Keys |-> room[k] + 1]
    BY <1>5 DEF Crash
  <2> QED  BY <1>1, <2>1 DEF HistoryOK
<1>6. ASSUME NEW k \in Keys, Flip(k)
      PROVE  HistoryOK'
  BY <1>1, <1>6 DEF Flip, HistoryOK
<1>7. ASSUME NEW by \in Callers, RebuildCuts(by)
      PROVE  HistoryOK'
  BY <1>1, <1>7, CutsEffect DEF HistoryOK
<1>8. ASSUME NEW n \in Streams, Judges(n)
      PROVE  HistoryOK'
  <2>1. PICK f \in FireRec, judged \in SUBSET Keys :
          JudgedNone(n, f, judged) \/ \E g, h : JudgedHit(n, f, judged, g, h)
    BY <1>8, JudgesEffect
  <2>2. \A k \in Keys : More(f, judged, k) \in Int
    BY <1>1 DEF More, HistoryOK
  <2>3. CASE JudgedNone(n, f, judged)
    BY <1>1, <2>2, <2>3 DEF JudgedNone, HistoryOK
  <2>4. ASSUME NEW g, NEW h, JudgedHit(n, f, judged, g, h)
        PROVE  HistoryOK'
    <3>1. h \in Keys
      BY <2>4 DEF JudgedHit
    <3>2. room' \in [Keys -> Int]
      BY <2>2, <2>4 DEF JudgedHit
    <3>3. slack' \in [Keys -> Int]
      BY <1>1, <2>4, <3>1 DEF JudgedHit, HistoryOK
    <3> QED  BY <3>2, <3>3 DEF HistoryOK
  <2> QED  BY <2>1, <2>3, <2>4
<1>9. ASSUME NEW n \in Streams, FireInsert(n)
      PROVE  HistoryOK'
  BY <1>1, <1>9, FireInsertEffect DEF HistoryOK
<1>10. ASSUME NEW n \in Streams, FirePush(n)
       PROVE  HistoryOK'
  <2>1. FireKey(n) \in Keys /\ fire[n].t \in Nat
    BY <1>10, FireKeys DEF FirePush
  <2> QED  BY <1>1, <1>10, <2>1, FirePushEffect DEF HistoryOK
<1>11. ASSUME NEW n \in Streams, FireRecord(n)
       PROVE  HistoryOK'
  <2>1. FireKey(n) \in Keys /\ fire[n].t \in Nat
    BY <1>11, FireKeys DEF FireRecord
  <2> QED  BY <1>1, <1>11, <2>1, FireRecordEffect DEF HistoryOK
<1> QED
  BY <1>2, <1>3, <1>4, <1>5, <1>6, <1>7, <1>8, <1>9, <1>10, <1>11, FireActions

\* The frames keep their types.
LEMMA FireTypes ==
  ASSUME TypeOK, FireInv, Next
  PROVE  fire' \in [Streams -> FireRec]
<1>1. fire \in [Streams -> FireRec]
  BY TypeParts
<1>2. CASE FireVars' = FireVars \/ NewDay \/ StartUp \/ \E k \in Keys : Flip(k)
  BY <1>1, <1>2 DEF FireVars, NewDay, StartUp, Flip
<1>3. CASE Crash
  BY <1>3, NoFireIs DEF Crash
<1>4. ASSUME NEW by \in Callers, RebuildCuts(by)
      PROVE  fire' \in [Streams -> FireRec]
  BY <1>4, CutsEffect
<1>5. ASSUME NEW n \in Streams, Judges(n)
      PROVE  fire' \in [Streams -> FireRec]
  <2>1. PICK f \in FireRec, judged \in SUBSET Keys :
          JudgedNone(n, f, judged) \/ \E g, h : JudgedHit(n, f, judged, g, h)
    BY <1>5, JudgesEffect
  <2>2. PICK g \in FireRec : FireTo(n, g)
    BY <2>1, NoFireIs DEF JudgedNone, JudgedHit
  <2> QED  BY <1>1, <2>2 DEF FireTo
<1>6. ASSUME NEW n \in Streams, FireInsert(n) \/ FirePush(n) \/ FireRecord(n)
      PROVE  fire' \in [Streams -> FireRec]
  BY <1>6, FireInsertEffect, FirePushEffect, FireRecordEffect DEF AlertMoves
<1> QED  BY <1>2, <1>3, <1>4, <1>5, <1>6, FireActions

\* All of it.
LEMMA Types ==
  ASSUME TypeOK, StreamInv, FireInv, Next
  PROVE  TypeOK'
<1>1. QuoteTypeOK'
  BY QuoteSteps, QuoteTypes
<1>2. TypeOK' <=> /\ QuoteTypeOK' /\ MarketOK' /\ RulesOK' /\ GateOK' /\ HistoryOK'
                  /\ fire' \in [Streams -> FireRec]
  BY DEF TypeOK, MarketOK, RulesOK, GateOK, HistoryOK, FireRec
<1> QED  BY <1>1, <1>2, MarketStep, RulesStep, GateStep, HistoryStep, FireTypes

-----------------------------------------------------------------------------
(* Pins, frames and the start                                              *)

\* The last pin of a queue with one more.
LEMMA LastPin ==
  ASSUME NEW q \in Seq(SUBSET Symbols), NEW s \in SUBSET Symbols
  PROVE  /\ Append(q, s) # <<>> /\ Append(q, s)[Len(Append(q, s))] = s
         /\ q # <<>> => (Tail(q) = <<>> => q[Len(q)] = Head(q))
         /\ q # <<>> => (Tail(q) # <<>> => Tail(q)[Len(Tail(q))] = q[Len(q)])
<1>1. Append(q, s) # <<>> /\ Append(q, s)[Len(Append(q, s))] = s
  OBVIOUS
<1>2. ASSUME q # <<>>, Tail(q) = <<>>
      PROVE  q[Len(q)] = Head(q)
  <2>1. Len(Tail(q)) = Len(q) - 1 /\ Len(q) \in Nat
    <3>1. q # <<>>
      BY <1>2
    <3> QED  BY <3>1
  <2>2. Len(Tail(q)) = 0
    <3>1. Len(<<>>) = 0
      OBVIOUS
    <3> QED  BY <1>2, <3>1, Zenon
  <2>3. Len(q) = 1
    BY <2>1, <2>2
  <2> QED  BY <1>2, <2>3
<1>3. ASSUME q # <<>>, Tail(q) # <<>>
      PROVE  Tail(q)[Len(Tail(q))] = q[Len(q)]
  BY <1>3
<1> QED  BY <1>1, <1>2, <1>3

\* Who touches what is pinned.
LEMMA MonitoredActions ==
  ASSUME Next
  PROVE  monitored' = monitored \/ PinNext \/ Crash
<1>1. ASSUME NEW n \in Streams, NEW f, Judge(n, f)
      PROVE  monitored' = monitored
  BY <1>1 DEF Judge, FanOut, Held, StreamOnly
<1>2. ASSUME NEW n \in Streams, NEW s \in Symbols, Observe(n, s)
      PROVE  monitored' = monitored
  BY <1>1, <1>2 DEF Observe
<1>3. ASSUME NEW n \in Streams, FireMark(n)
      PROVE  monitored' = monitored
  BY <1>1, <1>3 DEF FireMark
<1>4. ASSUME NEW c \in Clients,
             \/ \E syms \in Asks : Quietly(Register(c, syms)) \/ Quietly(Update(c, syms))
             \/ Quietly(SocketDies(c)) \/ Quietly(Unregister(c))
      PROVE  monitored' = monitored
  BY <1>4 DEF Quietly, Register, Update, SocketDies, Unregister
<1>5. ASSUME NEW n \in Streams,
             \/ FireInsert(n) \/ FirePush(n) \/ FireRecord(n)
             \/ Quietly(DropNext(n)) \/ Quietly(UpstreamDrops(n)) \/ Quietly(Resubscribe(n))
      PROVE  monitored' = monitored
  BY <1>5 DEF FireInsert, FirePush, FireRecord, FireOnly, Quietly, DropNext, UpstreamDrops,
              Resubscribe, StreamOnly
<1> QED
  BY <1>2, <1>3, <1>4, <1>5 DEF Next, Tick, NewDay, StartUp, Flip, EditRule, ReloadRead,
     ReloadIndex, Quietly, MoveAccount, Refresh, RebuildCuts, Rebuild, quoteVars

\* Who touches the streaming tasks.
LEMMA StreamsActions ==
  ASSUME Next
  PROVE  /\ \/ streams' = streams \/ Crash
            \/ \E by \in Callers : RebuildCuts(by)
            \/ \E n \in Streams : \/ Judges(n) \/ FireInsert(n) \/ Quietly(DropNext(n))
                                 \/ Quietly(UpstreamDrops(n)) \/ Quietly(Resubscribe(n))
         /\ up' = up \/ up' = TRUE \/ Crash
<1>1. ASSUME NEW c \in Clients,
             \/ \E syms \in Asks : Quietly(Register(c, syms)) \/ Quietly(Update(c, syms))
             \/ Quietly(SocketDies(c)) \/ Quietly(Unregister(c))
      PROVE  streams' = streams
  BY <1>1 DEF Quietly, Register, Update, SocketDies, Unregister
<1>2. up' = up \/ up' = TRUE \/ Crash
  BY RulesActions DEF rulesVars, StartUp, ReloadRead, ReloadIndex, PinNext, EditRule
<1> QED
  BY <1>1, <1>2 DEF Next, Judges, Tick, NewDay, StartUp, Flip, EditRule, ReloadRead, PinNext, Pin,
     ReloadIndex, Quietly, MoveAccount, Refresh, FirePush, FireRecord, FireOnly, quoteVars

\* The index follows the rules and the last pin the index.
LEMMA PinStep ==
  ASSUME TypeOK, FireInv, PinInv, Next
  PROVE  PinInv'
<1>0. /\ due \in Nat /\ pins \in Seq(SUBSET Symbols) /\ rules \in SUBSET RuleSet
      /\ missed \in BOOLEAN /\ \A rs \in SUBSET RuleSet : rs # None /\ SymbolsOf(rs) \in SUBSET Symbols
      /\ reading \in {None} \cup SUBSET RuleSet
  BY MonitorAssumption, TypeParts DEF RulesOK, SymbolsOf
<1>1. ASSUME NEW r \in RuleSet, EditRule(r)
      PROVE  PinInv'
  BY <1>0, <1>1 DEF EditRule, PinInv, quoteVars
<1>2. CASE ReloadRead
  <2>1. /\ due > 0 /\ reading = None /\ UNCHANGED <<rules, index, pins, monitored>>
        /\ (reading' = rules /\ missed' = missed) \/ missed' = TRUE
    BY <1>2 DEF ReloadRead
  <2> QED  BY <1>0, <2>1 DEF PinInv
<1>3. CASE ReloadIndex
  <2>1. /\ reading \in SUBSET RuleSet /\ reading' = None /\ index' = reading
        /\ pins' = Append(pins, SymbolsOf(reading)) /\ UNCHANGED <<rules, due, missed>>
    BY <1>0, <1>3 DEF ReloadIndex, Queued
  <2>2. SymbolsOf(index') = pins'[Len(pins')] /\ pins' # <<>>
    BY <1>0, <2>1, LastPin
  <2> QED  BY <1>0, <2>1, <2>2 DEF PinInv
<1>4. CASE PinNext
  <2>1. /\ pins # <<>> /\ pins' = Tail(pins) /\ monitored' = Head(pins)
        /\ UNCHANGED <<rules, due, missed, index, reading>>
    BY <1>4 DEF PinNext, Pin
  <2>2. SymbolsOf(index') = SymbolsOf(index)
    BY <2>1
  <2>3. SymbolsOf(index) = IF pins' = <<>> THEN monitored' ELSE pins'[Len(pins')]
    BY <1>0, <2>1, LastPin DEF PinInv
  <2> QED  BY <2>1, <2>2, <2>3 DEF PinInv
<1>5. CASE StartUp
  BY <1>5 DEF StartUp, PinInv
<1>6. CASE Crash
  <2>1. /\ index' = rules /\ pins' = <<SymbolsOf(rules)>> /\ rules' = rules
        /\ reading' = None
    BY <1>6 DEF Crash
  <2>2. pins' # <<>> /\ pins'[Len(pins')] = SymbolsOf(rules)
    BY <2>1
  <2> QED  BY <2>1, <2>2 DEF PinInv
<1>7. CASE rulesVars' = rulesVars /\ ~PinNext /\ ~Crash
  <2>1. monitored' = monitored
    BY <1>7, MonitoredActions
  <2> QED  BY <1>7, <2>1 DEF rulesVars, PinInv
<1> QED  BY <1>1, <1>2, <1>3, <1>4, <1>5, <1>6, <1>7, RulesActions

\* A frame is judged where the task waits for it.
LEMMA FireStep ==
  ASSUME TypeOK, FireInv, StreamInv, Next
  PROVE  FireInv'
<1>0. /\ fire \in [Streams -> FireRec] /\ fire' \in [Streams -> FireRec]
      /\ streams \in [Streams -> StreamRec] /\ dead \subseteq Clients /\ QuoteTypeOK
  BY TypeParts, FireTypes DEF QuoteTypeOK
<1>s. ASSUME NEW n \in Streams, fire'[n] = NoFire
      PROVE  /\ fire'[n].at # "none" => /\ streams'[n].at = "observe" /\ up'
                                        /\ fire'[n].rule \in RuleSet /\ KeyAt(fire'[n], fire'[n].rule) \in Keys
             /\ \A i \in fire'[n].todo : KeyAt(fire'[n], Rules[i]) \in Keys
  BY <1>s, NoFireIs
<1>k. ASSUME NEW n \in Streams, fire'[n] = fire[n],
             fire[n].at # "none" => streams'[n].at = "observe" /\ up'
      PROVE  /\ fire'[n].at # "none" => /\ streams'[n].at = "observe" /\ up'
                                        /\ fire'[n].rule \in RuleSet /\ KeyAt(fire'[n], fire'[n].rule) \in Keys
             /\ \A i \in fire'[n].todo : KeyAt(fire'[n], Rules[i]) \in Keys
  BY <1>k DEF FireInv, FireKey
<1>d. ASSUME \A n \in Streams :
               /\ fire'[n].at # "none" => /\ streams'[n].at = "observe" /\ up'
                                          /\ fire'[n].rule \in RuleSet /\ KeyAt(fire'[n], fire'[n].rule) \in Keys
               /\ \A i \in fire'[n].todo : KeyAt(fire'[n], Rules[i]) \in Keys
      PROVE  FireInv'
  BY <1>d DEF FireInv, FireKey
<1>1. CASE fire' = fire /\ (\A n \in Streams : fire[n].at # "none" => streams'[n].at = "observe") /\ (up => up')
  BY <1>1, <1>k, <1>d DEF FireInv
<1>2. CASE Crash
  <2>1. \A n \in Streams : fire'[n] = NoFire
    BY <1>2 DEF Crash
  <2> QED  BY <1>s, <1>d, <2>1
<1>3. ASSUME NEW by \in Callers, RebuildCuts(by)
      PROVE  FireInv'
  <2>1. \A n \in Streams : fire'[n] = IF n \in Running /\ streams'[n] # streams[n]
                                      THEN NoFire ELSE fire[n]
    BY <1>3, CutsEffect
  <2>2. up' = up
    BY <1>3, CutsEffect DEF rulesVars
  <2>3. ASSUME NEW n \in Streams, ~(n \in Running /\ streams'[n] # streams[n]), fire[n].at # "none"
        PROVE  streams'[n].at = "observe" /\ up'
    BY <2>2, <2>3 DEF FireInv, Running
  <2> QED  BY <1>s, <1>k, <1>d, <2>1, <2>3
<1>4. ASSUME NEW n \in Streams, Judges(n)
      PROVE  FireInv'
  <2>1. PICK f \in FireRec, judged \in SUBSET Keys :
          /\ \A i \in f.todo : KeyAt(f, Rules[i]) \in Keys
          /\ f.todo # {} => up
          /\ JudgedNone(n, f, judged) \/ \E g, h : JudgedHit(n, f, judged, g, h)
    BY <1>4, JudgesEffect
  <2>2. up' = up
    BY <1>4, JudgesEffect DEF rulesVars
  <2>3. CASE JudgedNone(n, f, judged)
    <3>1. FireTo(n, NoFire) /\ FanOut(n, f.sym)
      BY <2>3 DEF JudgedNone
    <3>2. OnlyStream(n) /\ OnlyFire(n) /\ fire'[n] = NoFire
      BY <1>0, <3>1, FanOutEffect, FireNoneEffect
    <3> QED  BY <1>s, <1>k, <1>d, <2>2, <3>2 DEF FireInv, OnlyStream, OnlyFire
  <2>4. ASSUME NEW g, NEW h, JudgedHit(n, f, judged, g, h)
        PROVE  FireInv'
    <3>1. /\ g \in FireRec /\ g.at = "open" /\ g.sym = f.sym /\ g.todo \subseteq f.todo
          /\ g.rule \in RuleSet /\ KeyAt(g, g.rule) \in Keys
          /\ FireTo(n, g) /\ StreamTo(n, "observe")
      BY <2>4 DEF JudgedHit, Held
    <3>2. OnlyStream(n) /\ streams'[n].at = "observe"
      BY <1>0, <3>1, StreamToEffect
    <3>3. OnlyFire(n) /\ fire'[n] = g
      BY <1>0, <3>1 DEF FireTo, OnlyFire
    <3>4. up
      BY <2>1, <2>4 DEF JudgedHit
    <3>5. \A i \in g.todo : KeyAt(g, Rules[i]) \in Keys
      BY <2>1, <3>1 DEF KeyAt
    <3> QED  BY <1>k, <1>d, <2>2, <3>1, <3>2, <3>3, <3>4, <3>5 DEF FireInv, OnlyStream, OnlyFire
  <2> QED  BY <2>1, <2>3, <2>4
<1>5. ASSUME NEW n \in Streams, FireInsert(n) \/ FirePush(n) \/ FireRecord(n)
      PROVE  FireInv'
  <2>1. up' = up
    BY <1>5, FireInsertEffect, FirePushEffect, FireRecordEffect DEF FireOnly, rulesVars
  <2>2. \/ /\ fire[n].at # "none" /\ OnlyFire(n) /\ fire'[n].at # "none"
           /\ fire'[n].sym = fire[n].sym /\ fire'[n].todo = fire[n].todo
           /\ fire'[n].rule = fire[n].rule /\ streams' = streams
        \/ OnlyFire(n) /\ fire'[n] = NoFire /\ OnlyStream(n)
    BY <1>0, <1>5, FireInsertEffect, FirePushEffect, FireRecordEffect, FanOutEffect DEF AlertMoves
  <2>3. CASE /\ fire[n].at # "none" /\ OnlyFire(n) /\ fire'[n].at # "none"
             /\ fire'[n].sym = fire[n].sym /\ fire'[n].todo = fire[n].todo
             /\ fire'[n].rule = fire[n].rule /\ streams' = streams
    <3>1. /\ streams'[n].at = "observe" /\ up' /\ fire'[n].rule \in RuleSet
          /\ KeyAt(fire'[n], fire'[n].rule) \in Keys
          /\ \A i \in fire'[n].todo : KeyAt(fire'[n], Rules[i]) \in Keys
      BY <2>1, <2>3 DEF FireInv, FireKey, KeyAt
    <3> QED  BY <1>k, <1>d, <2>1, <2>3, <3>1 DEF FireInv, OnlyFire
  <2>4. CASE OnlyFire(n) /\ fire'[n] = NoFire /\ OnlyStream(n)
    BY <1>s, <1>k, <1>d, <2>1, <2>4 DEF FireInv, OnlyFire, OnlyStream
  <2> QED  BY <2>2, <2>3, <2>4
<1>6. ASSUME NEW n \in Streams,
             Quietly(DropNext(n)) \/ Quietly(UpstreamDrops(n)) \/ Quietly(Resubscribe(n))
      PROVE  FireInv'
  <2>1. fire' = fire /\ up' = up
    BY <1>6 DEF Quietly, monitorVars, rulesVars
  <2>2. OnlyStream(n) /\ streams[n].at # "observe"
    BY <1>0, <1>6, DropNextEffect, TaskMovesEffect DEF Quietly, UpstreamDrops, Resubscribe, TaskMoves
  <2>3. \A m \in Streams : fire[m].at # "none" => streams'[m].at = "observe"
    BY <2>2 DEF FireInv, OnlyStream
  <2> QED  BY <1>1, <2>1, <2>3
<1>7. CASE streams' = streams /\ (FireVars' = FireVars \/ NewDay \/ StartUp \/ \E k \in Keys : Flip(k)) /\ ~Crash
  <2>1. fire' = fire
    BY <1>7 DEF FireVars, NewDay, StartUp, Flip
  <2>2. up => up'
    BY <1>7, StreamsActions
  <2> QED  BY <1>1, <1>7, <2>1, <2>2 DEF FireInv
<1> QED
  BY <1>2, <1>3, <1>4, <1>5, <1>6, <1>7, FireActions, StreamsActions

\* No cooldown is known before the rows are read.
LEMMA StartStep ==
  ASSUME TypeOK, FireInv, StartInv, Next
  PROVE  StartInv'
<1>1. CASE Crash \/ StartUp
  BY <1>1 DEF Crash, StartUp, StartInv
<1>2. ASSUME NEW n \in Streams, FireRecord(n)
      PROVE  StartInv'
  <2>1. up /\ up' = up
    BY <1>2 DEF FireRecord, FireOnly, rulesVars, FireInv
  <2> QED  BY <2>1 DEF StartInv
<1>3. last' = last \/ Crash \/ StartUp \/ \E n \in Streams : FireRecord(n)
  <2>1. ASSUME NEW n \in Streams, Judges(n) \/ FireInsert(n) \/ FirePush(n)
        PROVE  last' = last
    BY <2>1 DEF Judges, Observe, FireMark, FireInsert, FirePush
  <2> QED  BY <2>1, FireActions DEF FireVars, NewDay, Flip, RebuildCuts, gate
<1>4. CASE last' = last /\ ~Crash /\ ~StartUp
  <2>1. up' = up
    BY <1>4, RulesActions DEF rulesVars, ReloadRead, ReloadIndex, PinNext, EditRule
  <2> QED  BY <1>4, <2>1 DEF StartInv
<1> QED  BY <1>1, <1>2, <1>3, <1>4

-----------------------------------------------------------------------------
(* One alert per episode                                                   *)

\* Only the market turns a condition.
LEMMA CondActions ==
  ASSUME Next
  PROVE  cond' = cond \/ \E k \in Keys : Flip(k)
BY DEF Next, Tick, NewDay, Crash, StartUp, EditRule, ReloadRead, ReloadIndex, PinNext, Quietly,
       RebuildCuts, Observe, FireInsert, FirePush, FireRecord, FireMark, FireOnly, monitorVars, market

\* An alert takes the room of its key only when the condition has just become
\* true; judging an older quote gives one.
LEMMA JudgedRoom ==
  ASSUME NEW n \in Streams, TypeOK, FireInv, RoomInv, Judges(n), NEW k \in Keys
  PROVE  room'[k] >= 0 /\ (room'[k] = 0 => edge'[k] /\ cond'[k])
<1>1. PICK f \in FireRec, judged \in SUBSET Keys :
        /\ edge' = EdgeAfter(f, judged)
        /\ JudgedNone(n, f, judged) \/ \E g, h : JudgedHit(n, f, judged, g, h)
  BY JudgesEffect
<1>2. cond' = cond
  BY JudgesEffect DEF market
<1>3. /\ room[k] \in Int /\ room[k] >= 0 /\ (room[k] = 0 => edge[k] /\ cond[k])
      /\ edge[k] \in BOOLEAN /\ cond[k] \in BOOLEAN
  BY TypeParts DEF RoomInv, HistoryOK, GateOK, MarketOK
<1> DEFINE more == More(f, judged, k)
<1>4. /\ k \in judged /\ (k \in f.seen) # cond[k] => more = room[k] + 1
      /\ ~(k \in judged /\ (k \in f.seen) # cond[k]) => more = room[k]
  BY DEF More
<1>5. /\ k \in judged => edge'[k] = (k \in f.seen)
      /\ k \notin judged => edge'[k] = edge[k]
  BY <1>1 DEF EdgeAfter
<1>m. more \in Int /\ more >= 0
  BY <1>3, <1>4
<1>6. more = 0 => edge'[k] /\ cond[k]
  <2>1. SUFFICES ASSUME more = 0 PROVE edge'[k] /\ cond[k]
    OBVIOUS
  <2>2. ~(k \in judged /\ (k \in f.seen) # cond[k])
    BY <1>3, <1>4, <2>1
  <2>3. room[k] = 0
    BY <1>4, <2>1, <2>2
  <2> QED  BY <1>3, <1>5, <2>2, <2>3
<1> HIDE DEF more
<1>7. room'[k] = more \/ \E g, h : JudgedHit(n, f, judged, g, h) /\ h = k
  BY <1>1 DEF JudgedNone, JudgedHit, more
<1>8. CASE room'[k] = more
  BY <1>2, <1>m, <1>6, <1>8
<1>9. CASE \E g, h : JudgedHit(n, f, judged, g, h) /\ h = k
  <2>1. /\ room'[k] = more - 1 /\ k \in judged /\ k \in f.seen /\ ~edge[k]
    BY <1>9 DEF JudgedHit, Fires, more
  <2>2. room[k] >= 1
    BY <1>3, <2>1
  <2>3. edge'[k]
    BY <1>5, <2>1
  <2>4. CASE cond[k]
    <3>1. more >= 1
      BY <1>3, <1>4, <2>2
    <3>2. room'[k] >= 0
      BY <1>m, <2>1, <3>1
    <3>3. cond'[k] /\ edge'[k]
      BY <1>2, <2>3, <2>4
    <3> QED  BY <3>2, <3>3
  <2>5. CASE ~cond[k]
    <3>1. more = room[k] + 1
      BY <1>4, <2>1, <2>5
    <3> QED  BY <1>3, <2>1, <2>2, <3>1
  <2> QED  BY <2>4, <2>5
<1> QED  BY <1>7, <1>8, <1>9

\* So that no episode alerts twice without a cause.
LEMMA RoomStep ==
  ASSUME TypeOK, FireInv, RoomInv, Next
  PROVE  RoomInv'
<1>0. room \in [Keys -> Int] /\ cond \in [Keys -> BOOLEAN]
  BY TypeParts DEF HistoryOK, MarketOK
<1>1. ASSUME NEW k \in Keys, Flip(k)
      PROVE  RoomInv'
  BY <1>0, <1>1 DEF Flip, RoomInv, gate
<1>2. CASE NewDay \/ Crash
  <2>1. room' = [k \in Keys |-> room[k] + 1]
    BY <1>2 DEF NewDay, Crash
  <2> QED  BY <1>0, <2>1 DEF RoomInv
<1>3. ASSUME NEW n \in Streams, Judges(n)
      PROVE  RoomInv'
  BY <1>3, JudgedRoom DEF RoomInv
<1>4. ASSUME NEW n \in Streams, FireInsert(n) \/ FirePush(n) \/ FireRecord(n)
      PROVE  room' = room /\ edge' = edge
  BY <1>4, FireInsertEffect, FirePushEffect, FireRecordEffect
<1>5. \/ room' = room /\ edge' = edge
      \/ NewDay \/ Crash \/ (\E k \in Keys : Flip(k)) \/ \E n \in Streams : Judges(n)
  BY <1>4, FireActions DEF FireVars, StartUp, RebuildCuts, gate
<1>6. CASE room' = room /\ edge' = edge /\ cond' = cond
  BY <1>6 DEF RoomInv
<1> QED  BY <1>1, <1>2, <1>3, <1>5, <1>6, CondActions

-----------------------------------------------------------------------------
(* Alerts a cooldown apart                                                 *)

\* What is owed for the pending alerts p: the first of them too, unless it is
\* fresh, or the one to come when there is none and the gate is bare.
Due(p, fresh, bare) ==
  IF p = {} THEN IF bare THEN 1 ELSE 0
  ELSE IF fresh THEN Cardinality(p) - 1 ELSE Cardinality(p)

\* What is owed is a number, and its least and largest.
LEMMA DueIs ==
  ASSUME NEW p, NEW fresh \in BOOLEAN, NEW bare \in BOOLEAN, IsFiniteSet(p)
  PROVE  /\ Due(p, fresh, bare) \in Nat /\ Cardinality(p) \in Nat
         /\ p = {} => /\ bare => Due(p, fresh, bare) = 1
                      /\ ~bare => Due(p, fresh, bare) = 0
         /\ p # {} => /\ fresh => Due(p, fresh, bare) = Cardinality(p) - 1
                      /\ ~fresh => Due(p, fresh, bare) = Cardinality(p)
                      /\ Cardinality(p) >= 1
<1>1. Cardinality(p) \in Nat /\ (p # {} => Cardinality(p) # 0)
  BY FS_CardinalityType, FS_EmptySet
<1>2. CASE p = {}
  <2>1. CASE bare
    BY <1>1, <1>2, <2>1 DEF Due
  <2>2. CASE ~bare
    BY <1>1, <1>2, <2>2 DEF Due
  <2> QED  BY <2>1, <2>2
<1>3. CASE p # {}
  <2>1. CASE fresh
    BY <1>1, <1>3, <2>1 DEF Due
  <2>2. CASE ~fresh
    BY <1>1, <1>3, <2>2 DEF Due
  <2> QED  BY <2>1, <2>2
<1> QED  BY <1>2, <1>3

\* With fewer alerts pending and nothing else worse, no more is owed.
LEMMA DueShrinks ==
  ASSUME NEW p, IsFiniteSet(p), NEW fresh \in BOOLEAN, NEW bare \in BOOLEAN,
         NEW q, q \subseteq p, NEW fresh2 \in BOOLEAN, NEW bare2 \in BOOLEAN,
         p # {} /\ q # {} /\ fresh => fresh2,
         p # {} /\ q = {} /\ fresh => ~bare2,
         p = {} /\ bare2 => bare
  PROVE  Due(q, fresh2, bare2) <= Due(p, fresh, bare)
<1>1. IsFiniteSet(q) /\ Cardinality(q) <= Cardinality(p)
  BY FS_Subset
<1>2. /\ Cardinality(q) \in Nat /\ Cardinality(p) \in Nat
      /\ Due(q, fresh2, bare2) \in Nat /\ Due(p, fresh, bare) \in Nat
  BY <1>1, DueIs
<1>3. CASE p = {}
  <2>1. q = {}
    BY <1>3
  <2>2. CASE bare
    <3>1. Due(p, fresh, bare) = 1
      BY <1>3, <2>2, DueIs
    <3>2. Due(q, fresh2, bare2) \in {0, 1}
      BY <1>1, <2>1, DueIs
    <3> QED  BY <3>1, <3>2
  <2>3. CASE ~bare
    <3>1. Due(q, fresh2, bare2) = 0
      BY <1>1, <1>3, <2>1, <2>3, DueIs
    <3> QED  BY <1>2, <3>1
  <2> QED  BY <2>2, <2>3
<1>4. CASE p # {} /\ q = {}
  <2>1. CASE fresh
    <3>1. Due(q, fresh2, bare2) = 0
      BY <1>1, <1>4, <2>1, DueIs
    <3> QED  BY <1>2, <3>1
  <2>2. CASE ~fresh
    <3>1. Due(p, fresh, bare) = Cardinality(p) /\ Cardinality(p) >= 1
      BY <1>4, <2>2, DueIs
    <3>2. Due(q, fresh2, bare2) \in {0, 1}
      BY <1>1, <1>4, DueIs
    <3> QED  BY <1>2, <3>1, <3>2
  <2> QED  BY <2>1, <2>2
<1>5. CASE p # {} /\ q # {}
  <2>1. CASE fresh
    <3>1. Due(p, fresh, bare) = Cardinality(p) - 1 /\ Due(q, fresh2, bare2) = Cardinality(q) - 1
      BY <1>1, <1>5, <2>1, DueIs
    <3> QED  BY <1>1, <1>2, <3>1
  <2>2. CASE ~fresh
    <3>1. Due(p, fresh, bare) = Cardinality(p)
      BY <1>5, <2>2, DueIs
    <3>2. Due(q, fresh2, bare2) \in {Cardinality(q), Cardinality(q) - 1}
      BY <1>1, <1>5, DueIs
    <3> QED  BY <1>1, <1>2, <3>1, <3>2
  <2> QED  BY <2>1, <2>2
<1> QED  BY <1>3, <1>4, <1>5

Bare(k) == Uncovered(k) /\ ~Carried(k)

\* What is owed for a key, and what it depends on, now and next.
LEMMA OwesIs ==
  ASSUME NEW k
  PROVE  /\ Owes(k) = Due(Pending(k), Fresh(k), Bare(k)) /\ Owes(k) \in Nat
         /\ IsFiniteSet(Pending(k)) /\ Fresh(k) \in BOOLEAN /\ Bare(k) \in BOOLEAN
         /\ Owes(k)' = Due(Pending(k)', Fresh(k)', Bare(k)') /\ Owes(k)' \in Nat
         /\ IsFiniteSet(Pending(k)') /\ Fresh(k)' \in BOOLEAN /\ Bare(k)' \in BOOLEAN
<1>1. IsFiniteSet(Pending(k)) /\ IsFiniteSet(Pending(k)')
  <2>1. Pending(k) \subseteq Streams /\ Pending(k)' \subseteq Streams
    BY DEF Pending
  <2> QED  BY <2>1, QuoteAssumption, FS_Subset
<1>2. Fresh(k) \in BOOLEAN /\ Bare(k) \in BOOLEAN
  BY Zenon DEF Fresh, Bare, Uncovered, Carried
<1>3. Fresh(k)' \in BOOLEAN /\ Bare(k)' \in BOOLEAN
  BY Zenon DEF Fresh, Bare, Uncovered, Carried
<1>4. Owes(k) = Due(Pending(k), Fresh(k), Bare(k))
  BY DEF Owes, Due, Bare
<1>5. Owes(k)' = Due(Pending(k)', Fresh(k)', Bare(k)')
  BY DEF Owes, Due, Bare
<1>6. Due(Pending(k), Fresh(k), Bare(k)) \in Nat /\ Due(Pending(k)', Fresh(k)', Bare(k)') \in Nat
  BY <1>1, <1>2, <1>3, DueIs
<1> QED  BY <1>1, <1>2, <1>3, <1>4, <1>5, <1>6

\* With fewer alerts pending and nothing else worse, a key owes no more.
LEMMA OwesShrinks ==
  ASSUME NEW k, Pending(k)' \subseteq Pending(k),
         Pending(k)' # {} /\ Fresh(k) => Fresh(k)',
         Pending(k) # {} /\ Pending(k)' = {} /\ Fresh(k) => ~Bare(k)',
         Pending(k) = {} /\ Bare(k)' => Bare(k)
  PROVE  Owes(k)' <= Owes(k)
<1> DEFINE p == Pending(k)
           q == Pending(k)'
           fresh == Fresh(k)
           fresh2 == Fresh(k)'
           bare == Bare(k)
           bare2 == Bare(k)'
<1>1. /\ Owes(k) = Due(p, fresh, bare) /\ Owes(k)' = Due(q, fresh2, bare2)
      /\ IsFiniteSet(p) /\ fresh \in BOOLEAN /\ bare \in BOOLEAN
      /\ fresh2 \in BOOLEAN /\ bare2 \in BOOLEAN
  BY OwesIs
<1>2. /\ q \subseteq p /\ (p # {} /\ q # {} /\ fresh => fresh2)
      /\ (p # {} /\ q = {} /\ fresh => ~bare2) /\ (p = {} /\ bare2 => bare)
  OBVIOUS
<1> HIDE DEF p, q, fresh, fresh2, bare, bare2
<1>3. Due(q, fresh2, bare2) <= Due(p, fresh, bare)
  BY <1>1, <1>2, DueShrinks
<1> QED  BY <1>1, <1>3

\* One cause covers whatever fewer alerts owe.
LEMMA OwesNear ==
  ASSUME NEW k, Pending(k)' \subseteq Pending(k)
  PROVE  Owes(k)' <= Owes(k) + 1
<1> DEFINE p == Pending(k)
           q == Pending(k)'
           fresh == Fresh(k)
           fresh2 == Fresh(k)'
           bare == Bare(k)
           bare2 == Bare(k)'
<1>1. /\ Owes(k) = Due(p, fresh, bare) /\ Owes(k)' = Due(q, fresh2, bare2)
      /\ Owes(k) \in Nat /\ Owes(k)' \in Nat
      /\ IsFiniteSet(p) /\ IsFiniteSet(q) /\ fresh \in BOOLEAN /\ bare \in BOOLEAN
      /\ fresh2 \in BOOLEAN /\ bare2 \in BOOLEAN
  BY OwesIs
<1>2. q \subseteq p
  OBVIOUS
<1> HIDE DEF p, q, fresh, fresh2, bare, bare2
<1>3. /\ Cardinality(q) <= Cardinality(p)
      /\ Cardinality(q) \in Nat /\ Cardinality(p) \in Nat
  BY <1>1, <1>2, FS_Subset, FS_CardinalityType
<1>4. CASE q = {}
  <2>1. Due(q, fresh2, bare2) \in {0, 1}
    BY <1>1, <1>4, DueIs
  <2> QED  BY <1>1, <2>1
<1>5. CASE q # {}
  <2>1. Due(q, fresh2, bare2) \in {Cardinality(q), Cardinality(q) - 1}
    BY <1>1, <1>5, DueIs
  <2>2. p # {}
    BY <1>2, <1>5
  <2>3. Due(p, fresh, bare) \in {Cardinality(p), Cardinality(p) - 1}
    BY <1>1, <2>2, DueIs
  <2> QED  BY <1>1, <1>3, <2>1, <2>3
<1> QED  BY <1>4, <1>5

\* An alert that is no longer pending, or somebody else's, leaves a key as it was.
LEMMA FewerPending ==
  ASSUME NEW n \in Streams, NEW k, OnlyFire(n), pushedAt'[k] = pushedAt[k], last'[k] = last[k],
         fire[n].at = "sent" => FireKey(n) # k,
         n \in Pending(k)' => n \in Pending(k) /\ fire'[n].t = fire[n].t
  PROVE  Owes(k)' <= Owes(k)
<1>1. Pending(k)' \subseteq Pending(k)
  BY DEF Pending, OnlyFire, FireKey
<1>2. \A m \in Pending(k)' : m \in Streams /\ fire'[m].t = fire[m].t
  BY DEF Pending, OnlyFire
<1>3. Uncovered(k)' <=> Uncovered(k)
  BY DEF Uncovered
<1>4. Carried(k) => Carried(k)'
  <2>1. SUFFICES ASSUME NEW m \in Streams, fire[m].at = "sent", FireKey(m) = k,
                        fire[m].t >= pushedAt[k]
                 PROVE  Carried(k)'
    BY DEF Carried
  <2>2. m # n
    BY <2>1
  <2>3. fire'[m] = fire[m]
    BY <2>2 DEF OnlyFire
  <2> QED  BY <2>1, <2>3 DEF Carried, FireKey
<1>5. Fresh(k) => Fresh(k)'
  <2>1. SUFFICES ASSUME Fresh(k) PROVE Fresh(k)'
    OBVIOUS
  <2>2. ~Uncovered(k)'
    BY <1>3, <2>1 DEF Fresh
  <2>3. \A m \in Pending(k)' : ~Soon(k, fire'[m].t)
    BY <1>1, <1>2, <2>1 DEF Fresh
  <2>4. \A m \in Pending(k)' : ~Soon(k, fire[m].t)'
    BY <2>3 DEF Soon
  <2> QED  BY <2>2, <2>4 DEF Fresh
<1>6. (Fresh(k) => ~Bare(k)') /\ (Bare(k)' => Bare(k))
  BY <1>3, <1>4 DEF Fresh, Bare
<1> QED  BY <1>1, <1>5, <1>6, OwesShrinks

\* What a pending alert that is pushed takes off what is owed: one that comes
\* too soon was not fresh.
LEMMA PushedOwes ==
  ASSUME NEW n \in Streams, TypeOK, FireInv, AlertMoves(n, "push", "sent"), last' = last,
         pushedAt' = [pushedAt EXCEPT ![FireKey(n)] = fire[n].t], NEW k, k = FireKey(n)
  PROVE  /\ Owes(k)' <= Owes(k)
         /\ Soon(k, fire[n].t) => Owes(k)' <= Owes(k) - 1
<1>1. k \in Keys /\ fire[n].t \in Nat /\ pushedAt'[k] = fire[n].t
  <2>1. k \in Keys /\ fire[n].t \in Nat
    BY FireKeys DEF AlertMoves
  <2> QED  BY <2>1, TypeParts DEF GateOK
<1>2. n \in Pending(k) /\ Pending(k)' = Pending(k) \ {n}
  BY DEF Pending, AlertMoves, OnlyFire, FireKey
<1>3. ~Bare(k)'
  <2>1. fire'[n].at = "sent" /\ FireKey(n)' = k /\ fire'[n].t = fire[n].t
    BY DEF AlertMoves, FireKey, KeyAt
  <2>2. fire'[n].t >= pushedAt'[k]
    BY <1>1, <2>1
  <2> QED  BY <2>1, <2>2 DEF Bare, Carried
<1>4. Soon(k, fire[n].t) => ~Fresh(k)
  BY <1>2 DEF Fresh
<1> DEFINE p == Pending(k)
           q == Pending(k)'
           fresh == Fresh(k)
           fresh2 == Fresh(k)'
           bare == Bare(k)
           bare2 == Bare(k)'
<1>5. /\ Owes(k) = Due(p, fresh, bare) /\ Owes(k)' = Due(q, fresh2, bare2)
      /\ Owes(k) \in Nat /\ Owes(k)' \in Nat
      /\ IsFiniteSet(p) /\ IsFiniteSet(q) /\ fresh \in BOOLEAN /\ bare \in BOOLEAN
      /\ fresh2 \in BOOLEAN /\ bare2 \in BOOLEAN
  BY OwesIs
<1>6. n \in p /\ q = p \ {n} /\ ~bare2 /\ (Soon(k, fire[n].t) => ~fresh)
  BY <1>2, <1>3, <1>4
<1> HIDE DEF p, q, fresh, fresh2, bare, bare2
<1>7. Cardinality(q) = Cardinality(p) - 1 /\ Cardinality(q) \in Nat /\ Cardinality(p) \in Nat
  BY <1>5, <1>6, FS_RemoveElement, FS_CardinalityType
<1>8. Owes(k)' <= Cardinality(q)
  <2>1. CASE q = {}
    BY <1>5, <1>6, <1>7, <2>1, DueIs
  <2>2. CASE q # {}
    <3>1. Due(q, fresh2, bare2) \in {Cardinality(q), Cardinality(q) - 1}
      BY <1>5, <2>2, DueIs
    <3> QED  BY <1>5, <1>7, <3>1
  <2> QED  BY <2>1, <2>2
<1>9. p # {}
  BY <1>6
<1>10. CASE fresh
  <2>1. Due(p, fresh, bare) = Cardinality(p) - 1
    BY <1>5, <1>9, <1>10, DueIs
  <2> QED  BY <1>5, <1>6, <1>7, <1>8, <1>10, <2>1
<1>11. CASE ~fresh
  <2>1. Due(p, fresh, bare) = Cardinality(p)
    BY <1>5, <1>9, <1>11, DueIs
  <2> QED  BY <1>5, <1>7, <1>8, <2>1
<1> QED  BY <1>10, <1>11

\* A time that is recorded leaves the gate no less covered, unless it is
\* earlier than the one it replaces.
LEMMA RecordedOwes ==
  ASSUME NEW n \in Streams, TypeOK, FireInv,
         AlertMoves(n, "sent", "mark") \/ AlertMoves(n, "failed", "mark"),
         last' = [last EXCEPT ![FireKey(n)] = fire[n].t], pushedAt' = pushedAt,
         NEW k, k = FireKey(n)
  PROVE  /\ Owes(k)' <= Owes(k) + 1
         /\ ~(last[k] # None /\ fire[n].t < last[k]) => Owes(k)' <= Owes(k)
<1>1. /\ k \in Keys /\ fire[n].t \in Nat /\ last'[k] = fire[n].t
      /\ last[k] \in Nat \cup {None} /\ pushedAt[k] \in Nat \cup {None} /\ None \notin Nat
  <2>1. k \in Keys /\ fire[n].t \in Nat
    BY FireKeys DEF AlertMoves
  <2> QED  BY <2>1, TypeParts, MonitorAssumption DEF GateOK
<1>2. Pending(k)' = Pending(k)
  BY DEF Pending, AlertMoves, OnlyFire, FireKey
<1>3. Owes(k)' <= Owes(k) + 1
  BY <1>2, OwesNear
<1>4. ASSUME ~(last[k] # None /\ fire[n].t < last[k])
      PROVE  Owes(k)' <= Owes(k)
  <2>1. Uncovered(k)' => Uncovered(k)
    BY <1>1, <1>4 DEF Uncovered
  <2>2. Uncovered(k)' /\ Carried(k) => Carried(k)'
    <3>1. SUFFICES ASSUME Uncovered(k)', NEW m \in Streams, fire[m].at = "sent", FireKey(m) = k,
                          fire[m].t >= pushedAt[k]
                   PROVE  Carried(k)'
      BY DEF Carried
    <3>2. fire[n].t < pushedAt[k] /\ pushedAt[k] \in Nat
      BY <1>1, <3>1 DEF Uncovered
    <3>3. m # n
      BY <1>1, <3>1, <3>2
    <3>4. fire'[m] = fire[m]
      BY <3>3 DEF AlertMoves, OnlyFire
    <3> QED  BY <3>1, <3>4 DEF Carried, FireKey
  <2>3. \A m \in Pending(k)' : fire'[m].t = fire[m].t
    BY DEF Pending, AlertMoves, OnlyFire
  <2>4. Fresh(k) => Fresh(k)'
    <3>1. SUFFICES ASSUME Fresh(k) PROVE Fresh(k)'
      OBVIOUS
    <3>2. ~Uncovered(k)'
      BY <2>1, <3>1 DEF Fresh
    <3>3. \A m \in Pending(k)' : ~Soon(k, fire'[m].t)
      BY <1>2, <2>3, <3>1 DEF Fresh
    <3>4. \A m \in Pending(k)' : ~Soon(k, fire[m].t)'
      BY <3>3 DEF Soon
    <3> QED  BY <3>2, <3>4 DEF Fresh
  <2>5. (Fresh(k) => ~Bare(k)') /\ (Bare(k)' => Bare(k))
    BY <2>1, <2>2 DEF Fresh, Bare
  <2> QED  BY <1>2, <2>4, <2>5, OwesShrinks
<1> QED  BY <1>3, <1>4

\* A rule that fires keeps the distance, as far as the gate knows; with another
\* alert of its key under way the gate may not know.
LEMMA HitOwes ==
  ASSUME NEW n \in Streams, TypeOK, FireInv, fire[n].at \in {"none", "mark"},
         NEW f \in FireRec, NEW judged \in SUBSET Keys, NEW g, NEW h,
         JudgedHit(n, f, judged, g, h), last' = last, pushedAt' = pushedAt
  PROVE  /\ Owes(h)' <= Owes(h) + 1
         /\ ~Overlapped(n, h) => Owes(h)' <= Owes(h)
<1>1. /\ h \in Keys /\ f.t \in Nat /\ g.t = f.t /\ h = KeyAt(g, g.rule) /\ g.at = "open"
      /\ Cool(h, f.t) /\ fire \in [Streams -> FireRec] /\ FireTo(n, g)
  BY TypeParts DEF JudgedHit, FireRec, Fires
<1>2. OnlyFire(n) /\ fire'[n] = g
  BY <1>1 DEF FireTo, OnlyFire
<1>3. n \notin Pending(h) /\ Pending(h)' = Pending(h) \cup {n}
  BY <1>1, <1>2 DEF Pending, OnlyFire, FireKey
<1>4. /\ last[h] \in Nat \cup {None} /\ pushedAt[h] \in Nat \cup {None} /\ None \notin Nat
      /\ Cooldown \in Nat
  BY <1>1, TypeParts, MonitorAssumption DEF GateOK
<1>5. Uncovered(h)' <=> Uncovered(h)
  BY DEF Uncovered
<1>6. ~Uncovered(h) => ~Soon(h, f.t)
  BY <1>1, <1>4 DEF Uncovered, Soon, Cool
<1>7. ~Uncovered(h) /\ (\A m \in Pending(h) : ~Soon(h, fire[m].t)) => Fresh(h)'
  <2>1. SUFFICES ASSUME ~Uncovered(h), \A m \in Pending(h) : ~Soon(h, fire[m].t)
                 PROVE  Fresh(h)'
    OBVIOUS
  <2>2. \A m \in Pending(h)' : ~Soon(h, fire'[m].t)
    <3>1. \A m \in Pending(h) : fire'[m] = fire[m]
      BY <1>2, <1>3 DEF OnlyFire, Pending
    <3> QED  BY <1>1, <1>2, <1>3, <1>6, <2>1, <3>1
  <2>3. \A m \in Pending(h)' : ~Soon(h, fire[m].t)'
    BY <2>2 DEF Soon
  <2> QED  BY <1>5, <2>1, <2>3 DEF Fresh
<1> DEFINE p == Pending(h)
           q == Pending(h)'
           fresh == Fresh(h)
           fresh2 == Fresh(h)'
           bare == Bare(h)
           bare2 == Bare(h)'
<1>8. /\ Owes(h) = Due(p, fresh, bare) /\ Owes(h)' = Due(q, fresh2, bare2)
      /\ Owes(h) \in Nat /\ Owes(h)' \in Nat
      /\ IsFiniteSet(p) /\ IsFiniteSet(q) /\ fresh \in BOOLEAN /\ bare \in BOOLEAN
      /\ fresh2 \in BOOLEAN /\ bare2 \in BOOLEAN
  BY OwesIs
<1>9. /\ n \notin p /\ q = p \cup {n} /\ (fresh => fresh2)
      /\ (p = {} /\ ~Uncovered(h) => fresh2)
  BY <1>3, <1>7 DEF Fresh
<1>10. ~Overlapped(n, h) => p = {} /\ (Uncovered(h) => bare)
  <2>1. SUFFICES ASSUME ~Overlapped(n, h) PROVE p = {} /\ (Uncovered(h) => bare)
    OBVIOUS
  <2>2. \A m \in Streams : m # n => ~(fire[m].at \in {"open", "push", "sent", "failed"} /\ FireKey(m) = h)
    BY <2>1 DEF Overlapped, FireKey
  <2>3. p = {}
    BY <1>3, <2>2 DEF Pending
  <2>4. ~Carried(h)
    BY <2>2 DEF Carried
  <2> QED  BY <2>3, <2>4 DEF Bare
<1> HIDE DEF p, q, fresh, fresh2, bare, bare2
<1>11. Cardinality(q) = Cardinality(p) + 1 /\ Cardinality(q) \in Nat /\ Cardinality(p) \in Nat /\ q # {}
  BY <1>8, <1>9, FS_AddElement, FS_CardinalityType
<1>12. Due(q, fresh2, bare2) \in {Cardinality(q), Cardinality(q) - 1}
       /\ (fresh2 => Due(q, fresh2, bare2) = Cardinality(q) - 1)
  BY <1>8, <1>11, DueIs
<1>13. CASE p = {}
  <2>1. Cardinality(p) = 0 /\ Cardinality(q) = 1
    BY <1>11, <1>13, FS_EmptySet
  <2>2. Owes(h)' <= Owes(h) + 1
    BY <1>8, <1>12, <2>1
  <2>3. ASSUME ~Overlapped(n, h)
        PROVE  Owes(h)' <= Owes(h)
    <3>1. CASE Uncovered(h)
      <4>1. Due(p, fresh, bare) = 1
        BY <1>8, <1>10, <1>13, <2>3, <3>1, DueIs
      <4> QED  BY <1>8, <1>12, <2>1, <4>1
    <3>2. CASE ~Uncovered(h)
      <4>0. fresh2
        BY <1>9, <1>13, <3>2
      <4>2. Due(q, fresh2, bare2) = Cardinality(q) - 1
        BY <1>12, <4>0
      <4>1. Due(q, fresh2, bare2) = 0
        BY <2>1, <4>2
      <4> QED  BY <1>8, <4>1
    <3> QED  BY <3>1, <3>2
  <2> QED  BY <2>2, <2>3
<1>14. CASE p # {}
  <2>1. Overlapped(n, h)
    BY <1>10, <1>14
  <2>2. CASE fresh
    <3>1. Due(p, fresh, bare) = Cardinality(p) - 1 /\ Due(q, fresh2, bare2) = Cardinality(q) - 1
      BY <1>8, <1>9, <1>12, <1>14, <2>2, DueIs
    <3> QED  BY <1>8, <1>11, <2>1, <3>1
  <2>3. CASE ~fresh
    <3>1. Due(p, fresh, bare) = Cardinality(p)
      BY <1>8, <1>14, <2>3, DueIs
    <3> QED  BY <1>8, <1>11, <1>12, <2>1, <3>1
  <2> QED  BY <2>2, <2>3
<1> QED  BY <1>13, <1>14

\* Whoever is cut off with a pushed alert not recorded pays for it.
LEMMA CutOwes ==
  ASSUME NEW by \in Callers, TypeOK, RebuildCuts(by), NEW k \in Keys
  PROVE  Owes(k)' <= Owes(k) + Cardinality(CutSent(k))
<1>1. /\ last' = last /\ pushedAt' = pushedAt
      /\ \A n \in Streams : fire'[n] = NoFire \/ fire'[n] = fire[n]
      /\ \A n \in Streams : ~(n \in Running /\ streams'[n] # streams[n]) => fire'[n] = fire[n]
      /\ IsFiniteSet(CutSent(k)) /\ Cardinality(CutSent(k)) \in Nat
  BY CutsEffect
<1>2. Pending(k)' \subseteq Pending(k) /\ \A n \in Pending(k)' : fire'[n] = fire[n]
  BY <1>1, NoFireIs DEF Pending, FireKey
<1>o. Owes(k) \in Nat /\ Owes(k)' \in Nat
  BY OwesIs
<1>3. CASE CutSent(k) = {}
  <2>1. Uncovered(k)' <=> Uncovered(k)
    BY <1>1 DEF Uncovered
  <2>2. Carried(k) => Carried(k)'
    <3>1. SUFFICES ASSUME NEW m \in Streams, fire[m].at = "sent", FireKey(m) = k,
                          fire[m].t >= pushedAt[k]
                   PROVE  Carried(k)'
      BY DEF Carried
    <3>2. fire'[m] = fire[m]
      BY <1>1, <1>3, <3>1 DEF CutSent
    <3> QED  BY <1>1, <3>1, <3>2 DEF Carried, FireKey
  <2>3. Fresh(k) => Fresh(k)'
    <3>1. SUFFICES ASSUME Fresh(k) PROVE Fresh(k)'
      OBVIOUS
    <3>2. ~Uncovered(k)'
      BY <2>1, <3>1 DEF Fresh
    <3>3. \A m \in Pending(k)' : ~Soon(k, fire'[m].t)
      BY <1>2, <3>1 DEF Fresh
    <3>4. \A m \in Pending(k)' : ~Soon(k, fire[m].t)'
      BY <1>1, <3>3 DEF Soon
    <3> QED  BY <3>2, <3>4 DEF Fresh
  <2>4. (Fresh(k) => ~Bare(k)') /\ (Bare(k)' => Bare(k))
    BY <2>1, <2>2 DEF Fresh, Bare
  <2>5. Owes(k)' <= Owes(k)
    BY <1>2, <2>3, <2>4, OwesShrinks
  <2> QED  BY <1>1, <1>o, <2>5
<1>4. CASE CutSent(k) # {}
  <2>1. Cardinality(CutSent(k)) # 0
    BY <1>1, <1>4, FS_EmptySet
  <2>2. Owes(k)' <= Owes(k) + 1
    BY <1>2, OwesNear
  <2> QED  BY <1>1, <1>o, <2>1, <2>2
<1> QED  BY <1>3, <1>4

\* The bound on what is owed, of one key.
SlackOK(k) == slack[k] >= IF up THEN Owes(k) ELSE IF Forgotten(k) THEN 1 ELSE 0

\* While the daemon is up.
LEMMA SlackUp ==
  ASSUME NEW k, up', slack'[k] >= Owes(k)'
  PROVE  SlackOK(k)'
BY DEF SlackOK

\* Before it is up.
LEMMA SlackDown ==
  ASSUME NEW k, ~up', slack'[k] \in Int, slack'[k] >= 0,
         Forgotten(k)' => slack'[k] >= 1
  PROVE  SlackOK(k)'
BY DEF SlackOK

\* Alerts of a judging.
LEMMA JudgedSlack ==
  ASSUME NEW n \in Streams, TypeOK, FireInv, SlackInv, Judges(n), NEW k \in Keys
  PROVE  SlackOK(k)'
<1>1. PICK f \in FireRec, judged \in SUBSET Keys :
        /\ f.todo # {} => up
        /\ JudgedNone(n, f, judged) \/ \E g, h : JudgedHit(n, f, judged, g, h)
  BY JudgesEffect
<1>2. /\ last' = last /\ pushedAt' = pushedAt /\ alert' = alert /\ up' = up /\ up \in BOOLEAN
      /\ fire[n].at \in {"none", "mark"} /\ SlackOK(k) /\ slack \in [Keys -> Int]
      /\ fire \in [Streams -> FireRec]
  BY JudgesEffect, TypeParts DEF rulesVars, SlackInv, SlackOK, RulesOK, HistoryOK
<1>o. Owes(k) \in Nat /\ Owes(k)' \in Nat
  BY OwesIs
<1>3. CASE JudgedNone(n, f, judged)
  <2>1. OnlyFire(n) /\ fire'[n] = NoFire /\ slack' = slack
    BY <1>2, <1>3, FireNoneEffect DEF JudgedNone
  <2>2. Owes(k)' <= Owes(k)
    <3>1. n \notin Pending(k)'
      BY <2>1, NoFireIs DEF Pending
    <3> QED  BY <1>2, <2>1, <3>1, FewerPending
  <2>3. CASE up
    <3>1. slack'[k] >= Owes(k)'
      BY <1>2, <1>o, <2>1, <2>2, <2>3 DEF SlackOK
    <3> QED  BY <1>2, <2>3, <3>1, SlackUp
  <2>4. CASE ~up
    <3>1. Forgotten(k)' <=> Forgotten(k)
      BY <1>2 DEF Forgotten
    <3>2. slack'[k] >= 0 /\ (Forgotten(k) => slack'[k] >= 1) /\ slack'[k] \in Int
      BY <1>2, <2>1, <2>4 DEF SlackOK
    <3> QED  BY <1>2, <2>4, <3>1, <3>2, SlackDown
  <2> QED  BY <2>3, <2>4
<1>4. ASSUME NEW g, NEW h, JudgedHit(n, f, judged, g, h)
      PROVE  SlackOK(k)'
  <2>1. /\ up /\ h \in Keys /\ g.at = "open" /\ h = KeyAt(g, g.rule) /\ FireTo(n, g)
        /\ slack' = IF Overlapped(n, h) THEN [slack EXCEPT ![h] = @ + 1] ELSE slack
    BY <1>1, <1>4 DEF JudgedHit
  <2>2. OnlyFire(n) /\ fire'[n] = g
    BY <1>2, <2>1 DEF FireTo, OnlyFire
  <2>3. slack[k] >= Owes(k) /\ slack[k] \in Int
    BY <1>2, <2>1 DEF SlackOK
  <2>4. CASE k = h
    <3>1. /\ Owes(k)' <= Owes(k) + 1
          /\ ~Overlapped(n, k) => Owes(k)' <= Owes(k)
      BY <1>2, <1>4, <2>4, HitOwes
    <3>2. CASE Overlapped(n, h)
      <4>1. slack'[k] = slack[k] + 1
        BY <1>2, <2>1, <2>4, <3>2
      <4> QED  BY <1>2, <1>o, <2>1, <2>3, <3>1, <4>1, SlackUp
    <3>3. CASE ~Overlapped(n, h)
      <4>1. slack'[k] = slack[k] /\ Owes(k)' <= Owes(k)
        BY <2>1, <2>4, <3>1, <3>3
      <4> QED  BY <1>2, <1>o, <2>1, <2>3, <4>1, SlackUp
    <3> QED  BY <3>2, <3>3
  <2>5. CASE k # h
    <3>1. n \notin Pending(k)'
      BY <2>1, <2>2, <2>5 DEF Pending, FireKey
    <3>2. Owes(k)' <= Owes(k)
      BY <1>2, <2>2, <3>1, FewerPending
    <3>3. slack'[k] = slack[k]
      BY <1>2, <2>1, <2>5
    <3> QED  BY <1>2, <1>o, <2>1, <2>3, <3>2, <3>3, SlackUp
  <2> QED  BY <2>4, <2>5
<1> QED  BY <1>1, <1>3, <1>4

\* Alerts on their way.
LEMMA AlertSlack ==
  ASSUME NEW n \in Streams, TypeOK, FireInv, SlackInv,
         FireInsert(n) \/ FirePush(n) \/ FireRecord(n), NEW k \in Keys
  PROVE  SlackOK(k)'
<1>1. /\ up' = up /\ fire[n].at # "none" /\ up /\ SlackOK(k) /\ slack \in [Keys -> Int]
      /\ pushedAt \in [Keys -> Nat \cup {None}] /\ last \in [Keys -> Nat \cup {None}]
  BY TypeParts DEF FireInsert, FirePush, FireRecord, FireOnly, rulesVars, FireInv, SlackInv, SlackOK,
     HistoryOK, GateOK
<1>2. slack[k] >= Owes(k) /\ slack[k] \in Int /\ Owes(k) \in Nat /\ Owes(k)' \in Nat
  BY <1>1, OwesIs DEF SlackOK
<1>k. FireKey(n) \in Keys
  BY <1>1, FireKeys
<1>3. CASE FireInsert(n)
  <2>1. /\ slack' = slack /\ last' = last /\ pushedAt' = pushedAt
        /\ fire[n].at = "open" /\ OnlyFire(n)
        /\ AlertMoves(n, "open", "push") \/ fire'[n] = NoFire
    BY <1>3, FireInsertEffect DEF AlertMoves
  <2>2. n \in Pending(k)' => n \in Pending(k) /\ fire'[n].t = fire[n].t
    BY <2>1, NoFireIs DEF Pending, FireKey, AlertMoves, KeyAt
  <2>3. Owes(k)' <= Owes(k)
    BY <2>1, <2>2, FewerPending
  <2> QED  BY <1>1, <1>2, <2>1, <2>3, SlackUp
<1>4. CASE FirePush(n) /\ AlertMoves(n, "push", "failed") /\ pushedAt' = pushedAt /\ slack' = slack
  <2>1. last' = last /\ OnlyFire(n) /\ fire[n].at = "push" /\ fire'[n].at = "failed"
    BY <1>4, FirePushEffect DEF AlertMoves
  <2>2. n \notin Pending(k)'
    BY <2>1 DEF Pending
  <2>3. Owes(k)' <= Owes(k)
    BY <1>4, <2>1, <2>2, FewerPending
  <2> QED  BY <1>1, <1>2, <1>4, <2>3, SlackUp
<1>5. CASE /\ FirePush(n) /\ AlertMoves(n, "push", "sent")
           /\ pushedAt' = [pushedAt EXCEPT ![FireKey(n)] = fire[n].t]
           /\ slack' = IF Soon(FireKey(n), fire[n].t)
                       THEN [slack EXCEPT ![FireKey(n)] = @ - 1] ELSE slack
  <2>1. last' = last /\ OnlyFire(n) /\ fire[n].at = "push" /\ fire'[n].at = "sent"
    BY <1>5, FirePushEffect DEF AlertMoves
  <2>2. CASE k = FireKey(n)
    <3>1. Owes(k)' <= Owes(k) /\ (Soon(k, fire[n].t) => Owes(k)' <= Owes(k) - 1)
      BY <1>5, <2>1, <2>2, PushedOwes
    <3>2. CASE Soon(k, fire[n].t)
      <4>1. slack'[k] = slack[k] - 1
        BY <1>1, <1>5, <2>2, <3>2
      <4> QED  BY <1>1, <1>2, <3>1, <3>2, <4>1, SlackUp
    <3>3. CASE ~Soon(k, fire[n].t)
      <4>1. slack'[k] = slack[k]
        BY <1>5, <2>2, <3>3
      <4> QED  BY <1>1, <1>2, <3>1, <4>1, SlackUp
    <3> QED  BY <3>2, <3>3
  <2>3. CASE k # FireKey(n)
    <3>1. n \notin Pending(k)'
      BY <2>1 DEF Pending
    <3>2. slack'[k] = slack[k] /\ pushedAt'[k] = pushedAt[k]
      BY <1>1, <1>5, <1>k, <2>3
    <3>3. Owes(k)' <= Owes(k)
      BY <2>1, <3>1, <3>2, FewerPending
    <3> QED  BY <1>1, <1>2, <3>2, <3>3, SlackUp
  <2> QED  BY <2>2, <2>3
<1>6. CASE FireRecord(n)
  <2>1. /\ pushedAt' = pushedAt /\ OnlyFire(n) /\ fire'[n].at = "mark"
        /\ AlertMoves(n, "sent", "mark") \/ AlertMoves(n, "failed", "mark")
        /\ last' = [last EXCEPT ![FireKey(n)] = fire[n].t]
        /\ slack' = IF last[FireKey(n)] # None /\ fire[n].t < last[FireKey(n)]
                    THEN [slack EXCEPT ![FireKey(n)] = @ + 1] ELSE slack
    BY <1>6, FireRecordEffect DEF AlertMoves
  <2>2. CASE k = FireKey(n)
    <3>1. /\ Owes(k)' <= Owes(k) + 1
          /\ ~(last[k] # None /\ fire[n].t < last[k]) => Owes(k)' <= Owes(k)
      BY <2>1, <2>2, RecordedOwes
    <3>2. CASE last[k] # None /\ fire[n].t < last[k]
      <4>1. slack'[k] = slack[k] + 1
        BY <1>1, <2>1, <2>2, <3>2
      <4> QED  BY <1>1, <1>2, <3>1, <4>1, SlackUp
    <3>3. CASE ~(last[k] # None /\ fire[n].t < last[k])
      <4>1. slack' = slack
        BY <2>1, <2>2, <3>3
      <4> QED  BY <1>1, <1>2, <3>1, <3>3, <4>1, SlackUp
    <3> QED  BY <3>2, <3>3
  <2>3. CASE k # FireKey(n)
    <3>1. n \notin Pending(k)'
      BY <2>1 DEF Pending
    <3>2. slack'[k] = slack[k] /\ last'[k] = last[k]
      BY <1>1, <1>k, <2>1, <2>3
    <3>3. Owes(k)' <= Owes(k)
      BY <2>1, <2>3, <3>1, <3>2, FewerPending
    <3> QED  BY <1>1, <1>2, <3>2, <3>3, SlackUp
  <2> QED  BY <2>2, <2>3
<1>7. FirePush(n) => \/ /\ AlertMoves(n, "push", "sent")
                        /\ pushedAt' = [pushedAt EXCEPT ![FireKey(n)] = fire[n].t]
                        /\ slack' = IF Soon(FireKey(n), fire[n].t)
                                    THEN [slack EXCEPT ![FireKey(n)] = @ - 1] ELSE slack
                     \/ AlertMoves(n, "push", "failed") /\ pushedAt' = pushedAt /\ slack' = slack
  BY FirePushEffect
<1> QED  BY <1>3, <1>4, <1>5, <1>6, <1>7

\* The daemon starts: the rows that were written cover the alerts pushed.
LEMMA StartSlack ==
  ASSUME TypeOK, FireInv, StartInv, SlackInv, StartUp, NEW k \in Keys
  PROVE  SlackOK(k)'
<1>1. /\ ~up /\ up' = TRUE /\ fire' = fire /\ pushedAt' = pushedAt
      /\ slack[k] >= 0 /\ (Forgotten(k) => slack[k] >= 1) /\ slack[k] \in Int /\ last[k] = None
      /\ pushedAt[k] \in Nat \cup {None} /\ slack \in [Keys -> Int]
  BY TypeParts DEF StartUp, SlackInv, StartInv, HistoryOK, GateOK, ForKeys
<1>2. Pending(k)' = {}
  BY <1>1 DEF Pending, FireInv, FireKey
<1>3. /\ Owes(k)' = Due({}, Fresh(k)', Bare(k)') /\ Owes(k)' \in Nat
      /\ Fresh(k)' \in BOOLEAN /\ Bare(k)' \in BOOLEAN /\ IsFiniteSet({})
  BY <1>2, OwesIs, FS_EmptySet
<1>4. Owes(k)' <= 1 /\ (~Bare(k)' => Owes(k)' = 0)
  <2> DEFINE fresh == Fresh(k)'
             bare == Bare(k)'
             owes == Owes(k)'
  <2>1. owes = Due({}, fresh, bare) /\ fresh \in BOOLEAN /\ bare \in BOOLEAN /\ IsFiniteSet({})
    BY <1>3
  <2> HIDE DEF fresh, bare, owes
  <2>2. owes <= 1 /\ (~bare => owes = 0)
    <3>1. CASE bare
      <4>1. owes = 1
        BY <2>1, <3>1, DueIs
      <4>2. owes <= 1
        BY <4>1
      <4> QED  BY <3>1, <4>2
    <3>2. CASE ~bare
      <4>1. owes = 0
        BY <2>1, <3>2, DueIs
      <4>2. owes <= 1
        BY <4>1
      <4> QED  BY <4>1, <4>2
    <3> QED  BY <3>1, <3>2
  <2> QED  BY <2>2 DEF owes, bare
<1>5. CASE last' = alert /\ slack' = slack
  <2>1. Bare(k)' => Forgotten(k)
    BY <1>1, <1>5 DEF Bare, Uncovered, Forgotten
  <2>2. slack'[k] >= Owes(k)'
    BY <1>1, <1>3, <1>4, <1>5, <2>1
  <2> QED  BY <1>1, <2>2, SlackUp
<1>6. CASE slack' = [m \in Keys |-> IF pushedAt[m] = None THEN slack[m] ELSE slack[m] + 1]
  <2>1. CASE pushedAt[k] = None
    <3>1. ~Bare(k)' /\ slack'[k] = slack[k]
      BY <1>1, <1>6, <2>1 DEF Bare, Uncovered
    <3> QED  BY <1>1, <1>4, <3>1, SlackUp
  <2>2. CASE pushedAt[k] # None
    <3>1. slack'[k] = slack[k] + 1
      BY <1>6, <2>2
    <3> QED  BY <1>1, <1>3, <1>4, <3>1, SlackUp
  <2> QED  BY <2>1, <2>2
<1> QED  BY <1>5, <1>6 DEF StartUp, Rehydrated

\* A step that touches neither alerts nor their history.
LEMMA QuietSlack ==
  ASSUME NEW k \in Keys, TypeOK, FireInv, SlackInv,
         fire' = fire, last' = last, pushedAt' = pushedAt, alert' = alert, slack' = slack, up' = up
  PROVE  SlackOK(k)'
<1>1. SlackOK(k) /\ slack[k] \in Int
  BY TypeParts DEF SlackInv, SlackOK, HistoryOK
<1>2. Owes(k)' = Owes(k) /\ (Forgotten(k)' <=> Forgotten(k))
  <2>1. /\ Pending(k)' = Pending(k) /\ (Fresh(k)' <=> Fresh(k)) /\ (Uncovered(k)' <=> Uncovered(k))
        /\ (Carried(k)' <=> Carried(k))
    BY DEF Pending, Fresh, Uncovered, Carried, Soon, FireKey
  <2>2. Owes(k)' = Owes(k)
    BY <2>1 DEF Owes
  <2> QED  BY <2>2 DEF Forgotten
<1> QED  BY <1>1, <1>2 DEF SlackOK

\* What is owed stays covered.
LEMMA SlackStep ==
  ASSUME TypeOK, FireInv, StartInv, SlackInv, Next
  PROVE  SlackInv'
<1>s. ASSUME \A k \in Keys : SlackOK(k)'
      PROVE  SlackInv'
  BY <1>s DEF SlackInv, SlackOK
<1>1. ASSUME NEW n \in Streams, Judges(n)
      PROVE  SlackInv'
  BY <1>1, <1>s, JudgedSlack
<1>2. ASSUME NEW n \in Streams, FireInsert(n) \/ FirePush(n) \/ FireRecord(n)
      PROVE  SlackInv'
  BY <1>2, <1>s, AlertSlack
<1>3. CASE StartUp
  BY <1>3, <1>s, StartSlack
<1>4. ASSUME NEW by \in Callers, RebuildCuts(by), NEW k \in Keys
      PROVE  SlackOK(k)'
  <2>1. /\ slack'[k] = slack[k] + Cardinality(CutSent(k)) /\ Cardinality(CutSent(k)) \in Nat
        /\ pushedAt' = pushedAt /\ alert' = alert /\ up' = up
        /\ Owes(k)' <= Owes(k) + Cardinality(CutSent(k))
    BY <1>4, CutsEffect, CutOwes DEF rulesVars
  <2>2. SlackOK(k) /\ slack[k] \in Int /\ Owes(k) \in Nat /\ Owes(k)' \in Nat /\ up \in BOOLEAN
    BY TypeParts, OwesIs DEF SlackInv, SlackOK, HistoryOK, RulesOK
  <2>3. CASE up
    <3>1. slack'[k] >= Owes(k)'
      BY <2>1, <2>2, <2>3 DEF SlackOK
    <3> QED  BY <2>1, <2>3, <3>1, SlackUp
  <2>4. CASE ~up
    <3>1. Forgotten(k)' <=> Forgotten(k)
      BY <2>1 DEF Forgotten
    <3>2. slack[k] >= 0 /\ (Forgotten(k) => slack[k] >= 1)
      BY <2>2, <2>4 DEF SlackOK
    <3>3. slack'[k] >= 0 /\ slack'[k] \in Int /\ slack'[k] >= slack[k]
      BY <2>1, <2>2, <3>2
    <3>4. Forgotten(k) => slack'[k] >= 1
      BY <2>1, <2>2, <3>2
    <3> QED  BY <2>1, <2>4, <3>1, <3>3, <3>4, SlackDown
  <2> QED  BY <2>3, <2>4
<1>5. ASSUME Crash, NEW k \in Keys
      PROVE  SlackOK(k)'
  <2>1. /\ slack' = [m \in Keys |-> IF Forgotten(m) THEN slack[m] + 1 ELSE slack[m]]
        /\ pushedAt' = pushedAt /\ alert' = alert /\ ~up' /\ up
    BY <1>5 DEF Crash
  <2>2. SlackOK(k) /\ slack[k] \in Int /\ Owes(k) \in Nat
    BY TypeParts, OwesIs DEF SlackInv, SlackOK, HistoryOK
  <2>3. slack[k] >= 0
    BY <2>1, <2>2 DEF SlackOK
  <2>4. Forgotten(k)' <=> Forgotten(k)
    BY <2>1 DEF Forgotten
  <2>5. CASE Forgotten(k)
    <3>1. slack'[k] = slack[k] + 1
      BY <2>1, <2>5
    <3> QED  BY <2>1, <2>2, <2>3, <3>1, SlackDown
  <2>6. CASE ~Forgotten(k)
    <3>1. slack'[k] = slack[k]
      BY <2>1, <2>6
    <3> QED  BY <2>1, <2>2, <2>3, <2>4, <2>6, <3>1, SlackDown
  <2> QED  BY <2>5, <2>6
<1>6. CASE /\ fire' = fire /\ last' = last /\ pushedAt' = pushedAt /\ alert' = alert
           /\ slack' = slack /\ up' = up
  BY <1>6, <1>s, QuietSlack
<1>7. \/ Crash \/ StartUp \/ (\E by \in Callers : RebuildCuts(by))
      \/ \E n \in Streams : Judges(n) \/ FireInsert(n) \/ FirePush(n) \/ FireRecord(n)
      \/ /\ fire' = fire /\ last' = last /\ pushedAt' = pushedAt /\ alert' = alert
         /\ slack' = slack
  BY FireActions DEF FireVars, NewDay, Flip, gate
<1>8. up' = up \/ Crash \/ StartUp
  BY RulesActions DEF rulesVars, ReloadRead, ReloadIndex, PinNext, EditRule
<1> QED  BY <1>1, <1>2, <1>3, <1>4, <1>5, <1>6, <1>7, <1>8, <1>s

-----------------------------------------------------------------------------
(* The invariant                                                           *)

\* It holds at first.
LEMMA Initially ==
  ASSUME Init
  PROVE  IInv
<1>1. /\ QuoteInit /\ streams = [n \in Streams |-> NoStream] /\ fire = [n \in Streams |-> NoFire]
  BY DEF Init, QuoteInit
<1>2. QuoteTypeOK
  <2>1. [n \in Streams |-> NoStream] \in [Streams -> StreamRec]
    BY NoStreamIs
  <2> QED  BY <1>1, <2>1 DEF QuoteInit, QuoteTypeOK
<1>3. MarketOK /\ GateOK /\ HistoryOK
  BY DEF Init, ForKeys, MarketOK, GateOK, HistoryOK
<1>4. /\ rules \in SUBSET RuleSet /\ index = rules /\ pins = <<SymbolsOf(rules)>>
      /\ due = 0 /\ reading = None /\ up = FALSE /\ edits = 0 /\ missed = FALSE
  BY DEF Init
<1>5. SymbolsOf(rules) \in SUBSET Symbols
  BY <1>4, MonitorAssumption DEF SymbolsOf
<1>6. pins \in Seq(SUBSET Symbols) /\ pins # <<>> /\ pins[Len(pins)] = SymbolsOf(rules)
  BY <1>4, <1>5
<1>7. RulesOK
  BY <1>4, <1>6 DEF RulesOK
<1>8. TypeOK
  <2>1. fire \in [Streams -> FireRec]
    BY <1>1, NoFireIs
  <2> QED  BY <1>2, <1>3, <1>7, <2>1, TypeParts
<1>9. Running = {} /\ Owed = {} /\ Dropping = 0
  BY <1>1, NoStreamIs DEF QuoteInit, Running, Owed, Dropping
<1>10. StreamInv
  <2>1. joined = {} /\ dead = {} /\ sockets = 0 /\ deaths = 0 /\ task = None /\ subscribed = {}
        /\ monitored = {} /\ lock = None
    BY <1>1 DEF QuoteInit
  <2>2. Cardinality({}) = 0 /\ joined \ dead = {} /\ Running \ {task} = {} /\ dead \cup Owed = {}
    BY <1>9, <2>1, FS_EmptySet
  <2>3. SocketInv
    BY <2>1, <2>2, QuoteAssumption DEF SocketInv
  <2>4. TaskInv
    BY <2>1 DEF TaskInv, Wanted
  <2>5. OrphanInv
    BY <1>9, <2>1, <2>2 DEF OrphanInv
  <2> QED  BY <2>3, <2>4, <2>5 DEF StreamInv
<1>11. PinInv
  BY <1>4, <1>6 DEF PinInv
<1>12. FireInv
  BY <1>1, NoFireIs DEF FireInv
<1>13. StartInv
  BY DEF Init, StartInv
<1>14. SlackInv
  BY DEF Init, SlackInv, Forgotten, ForKeys
<1>15. RoomInv
  BY DEF Init, RoomInv, ForKeys
<1> QED  BY <1>8, <1>10, <1>11, <1>12, <1>13, <1>14, <1>15 DEF IInv

\* Nothing happens to it when nothing happens.
LEMMA Stutter ==
  ASSUME IInv, UNCHANGED vars
  PROVE  IInv'
<1> USE DEF vars, quoteVars, monitorVars, connection, registry, market, rulesVars, gate, history
<1>1. TypeOK'
  BY DEF IInv, TypeOK, QuoteTypeOK
<1>2. StreamInv'
  BY DEF IInv, StreamInv, SocketInv, TaskInv, OrphanInv, Running, Wanted, Owed, Dropping
<1>3. PinInv' /\ StartInv' /\ RoomInv'
  BY DEF IInv, PinInv, StartInv, RoomInv
<1>4. FireInv'
  BY DEF IInv, FireInv, FireKey
<1>5. SlackInv'
  <2>1. \A k \in Keys : SlackOK(k)'
    BY QuietSlack DEF IInv
  <2> QED  BY <2>1 DEF SlackInv, SlackOK
<1> QED  BY <1>1, <1>2, <1>3, <1>4, <1>5 DEF IInv

\* Every step keeps it.
LEMMA Inductive ==
  ASSUME IInv, [Next]_vars
  PROVE  IInv'
<1>1. CASE Next
  <2>1. TypeOK /\ StreamInv /\ PinInv /\ FireInv /\ StartInv /\ SlackInv /\ RoomInv
    BY DEF IInv
  <2>2. QuoteStep
    BY <1>1, <2>1, QuoteSteps
  <2>3. StreamInv'
    BY <2>1, <2>2, SocketStep, TaskStep, OrphanStep DEF StreamInv
  <2>4. TypeOK'
    BY <1>1, <2>1, Types
  <2>5. PinInv' /\ FireInv' /\ StartInv' /\ SlackInv' /\ RoomInv'
    BY <1>1, <2>1, PinStep, FireStep, StartStep, SlackStep, RoomStep
  <2> QED  BY <2>3, <2>4, <2>5 DEF IInv
<1>2. CASE UNCHANGED vars
  BY <1>2, Stutter
<1> QED  BY <1>1, <1>2

\* The inductive invariant holds of every behaviour.
THEOREM Invariant == Spec => []IInv
<1>1. Init => IInv
  BY Initially
<1>2. IInv /\ [Next]_vars => IInv'
  BY Inductive
<1> QED  BY <1>1, <1>2, PTL DEF Spec

\* The variables keep their types.
THEOREM TypeCorrect == Spec => []TypeOK
<1>1. IInv => TypeOK
  BY DEF IInv
<1> QED  BY <1>1, Invariant, PTL

\* The tracked task streams what is wanted, and no more tasks go on beside it
\* than sockets died (_rebuild_stream_task_locked, _cancel_stream_task_locked).
THEOREM StreamsServe == Spec => []StreamServesUnion
<1>1. IInv => StreamServesUnion
  <2>1. SUFFICES ASSUME IInv PROVE StreamServesUnion
    OBVIOUS
  <2>2. QuoteTypeOK /\ TaskInv /\ OrphanInv
    BY <2>1 DEF IInv, TypeOK, StreamInv
  <2>3. lock = None => /\ subscribed = Wanted \/ task = None
                       /\ task # None => /\ task \in Running /\ streams[task].symbols = Wanted
                                         /\ conn # None
    BY <2>2 DEF TaskInv
  <2>4. Cardinality(Running \ {task}) <= deaths
    BY <2>2, Counted DEF OrphanInv
  <2> QED  BY <2>3, <2>4 DEF StreamServesUnion
<1> QED  BY <1>1, Invariant, PTL

\* Once every reload is through, the index holds the active rules and their
\* symbols are pinned (MonitorDaemon.reload_rules).
THEOREM RulesArePinned == Spec => []PinsFollowRules
<1>1. IInv => PinsFollowRules
  BY DEF IInv, PinInv, PinsFollowRules
<1> QED  BY <1>1, Invariant, PTL

\* Alerts of a key are a cooldown apart, but for those with a cause of their own
\* (DedupGate.should_fire, MonitorDaemon._fire).
THEOREM AlertsKeepDistance == Spec => []AlertsSpaced
<1>1. IInv => AlertsSpaced
  <2>1. SUFFICES ASSUME IInv, NEW k \in Keys PROVE slack[k] >= 0
    BY DEF AlertsSpaced
  <2>2. /\ slack[k] >= IF up THEN Owes(k) ELSE IF Forgotten(k) THEN 1 ELSE 0
        /\ slack[k] \in Int /\ up \in BOOLEAN
    BY <2>1, TypeParts DEF IInv, SlackInv, HistoryOK, RulesOK
  <2>3. Owes(k) \in Nat
    BY OwesIs
  <2>4. CASE up
    BY <2>2, <2>3, <2>4
  <2>5. CASE ~up
    BY <2>2, <2>5
  <2> QED  BY <2>4, <2>5
<1> QED  BY <1>1, Invariant, PTL

\* While a condition stays true it alerts once (DedupGate's edge).
THEOREM EpisodesAlertOnce == Spec => []EpisodeAlertsOnce
<1>1. IInv => EpisodeAlertsOnce
  BY DEF IInv, RoomInv, EpisodeAlertsOnce
<1> QED  BY <1>1, Invariant, PTL

=============================================================================
