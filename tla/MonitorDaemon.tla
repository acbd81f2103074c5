---------------------------- MODULE MonitorDaemon ----------------------------
(***************************************************************************)
(* The monitoring daemon on top of the quote stream.  Each frame of a      *)
(* symbol is judged by the rules that watch it, in turn; a rule whose      *)
(* condition has just become true, and which did not alert within its      *)
(* cooldown, alerts: a row is stored, a message is pushed, and only then   *)
(* the time is recorded for the cooldown.  All of it runs inside the       *)
(* streaming task, which a change of the subscriptions may cancel at any   *)
(* await.  People edit the rules; every edit reloads the index and pins    *)
(* the symbols of the active rules.                                        *)
(*                                                                         *)
(* A key is a rule with a symbol of its scope.  What a condition says of a *)
(* symbol is a boolean of the market, cond.                                *)
(***************************************************************************)
EXTENDS QuoteStream, Integers, Sequences

CONSTANTS
  Rules,    \* in the order list_active returns them: a sequence without repetition
  Scope,    \* the symbols of each rule
  Cooldown, \* cooldown_seconds of every rule
  MaxTime, MaxEdits, MaxDays \* bounds: the clock, edits of rules, new days

RuleSet == {Rules[i] : i \in 1..Len(Rules)}

ASSUME MonitorAssumption ==
  /\ Scope \in [RuleSet -> SUBSET Symbols]
  /\ Rules \in Seq(RuleSet)
  /\ None \notin RuleSet \cup Symbols \cup Nat /\ \A rs \in SUBSET RuleSet : rs # None
  /\ Cooldown \in Nat /\ MaxTime \in Nat /\ MaxEdits \in Nat /\ MaxDays \in Nat

Keys == {k \in RuleSet \X Symbols : k[2] \in Scope[k[1]]}

VARIABLES
  now, cond,     \* the clock, and what the market makes of each condition
  rules,         \* the active rules stored
  due, reading,  \* reloads not begun, and what the one under way has read
  index, pins,   \* the rules of the index, and pins on their way to the stream
  up,            \* start() is through
  edge, last,    \* DedupGate: the last judgement, the last recorded alert
  alert,         \* the time of the newest alert row of each key
  fire,          \* the judging of a frame in each streaming task
  edits, days,   \* how many there were
  missed,        \* a reload failed
  pushedAt, \* the last alert pushed
  slack,    \* causes for an alert within the cooldown, less such alerts
  room      \* one, and causes for more, less the alerts since the condition turned

rulesVars == <<rules, due, reading, index, pins, up, edits, missed>>
gate      == <<edge, last>>
history   == <<pushedAt, slack, room>>
market    == <<now, cond, days>>
monitorVars == <<market, rulesVars, gate, alert, fire, history>>
vars == <<quoteVars, monitorVars>>

Times   == 0..MaxTime
NoFire  == [at |-> "none", sym |-> None, todo |-> {}, seen |-> {}, rule |-> None,
            t |-> 0]
FirePlaces == {"none", "open", "push", "sent", "failed", "mark"}
SymbolsOf(rs) == UNION {Scope[r] : r \in rs}

TypeOK ==
  /\ QuoteTypeOK
  /\ now \in Nat /\ cond \in [Keys -> BOOLEAN] /\ days \in Nat
  /\ rules \subseteq RuleSet /\ due \in Nat
  /\ reading \in {None} \cup SUBSET RuleSet
  /\ index \subseteq RuleSet /\ pins \in Seq(SUBSET Symbols)
  /\ up \in BOOLEAN /\ missed \in BOOLEAN /\ edits \in Nat
  /\ edge \in [Keys -> BOOLEAN] /\ last \in [Keys -> Nat \cup {None}]
  /\ alert \in [Keys -> Nat \cup {None}]
  /\ fire \in [Streams -> [at : FirePlaces, sym : Symbols \cup {None},
                           todo : SUBSET DOMAIN Rules, seen : SUBSET Keys, rule : RuleSet \cup {None}, t : Nat]]
  /\ pushedAt \in [Keys -> Nat \cup {None}]
  /\ slack \in [Keys -> Int] /\ room \in [Keys -> Int]

ForKeys(v) == [k \in Keys |-> v]

\* A process that has just loaded its rules.
Init ==
  /\ QuoteInit
  /\ now = 0 /\ cond = ForKeys(FALSE) /\ days = 0
  /\ rules \in SUBSET RuleSet /\ index = rules /\ pins = <<SymbolsOf(rules)>>
  /\ due = 0 /\ reading = None /\ up = FALSE /\ edits = 0 /\ missed = FALSE
  /\ edge = ForKeys(FALSE) /\ last = ForKeys(None) /\ alert = ForKeys(None)
  /\ fire = [n \in Streams |-> NoFire]
  /\ pushedAt = ForKeys(None) /\ slack = ForKeys(0) /\ room = ForKeys(1)

-----------------------------------------------------------------------------
(* The market and the clock.                                               *)

Flip(k) ==
  /\ cond' = [cond EXCEPT ![k] = ~@]
  /\ room' = [room EXCEPT ![k] = 1]
  /\ UNCHANGED <<quoteVars, now, days, rulesVars, gate, alert, fire, pushedAt, slack>>

Tick ==
  /\ now < MaxTime /\ now' = now + 1
  /\ UNCHANGED <<quoteVars, cond, days, rulesVars, gate, alert, fire, history>>

\* The sweep of a new day forgets the edges and keeps the cooldowns.
NewDay ==
  /\ up /\ days < MaxDays /\ days' = days + 1
  /\ edge' = ForKeys(FALSE)
  /\ room' = [k \in Keys |-> room[k] + 1]
  /\ UNCHANGED <<quoteVars, now, cond, rulesVars, last, alert, fire, pushedAt, slack>>

-----------------------------------------------------------------------------
(* The rules: edits and reload_rules.                                      *)

EditRule(r) ==
  /\ up /\ edits < MaxEdits /\ edits' = edits + 1
  /\ rules' = IF r \in rules THEN rules \ {r} ELSE rules \cup {r}
  /\ due' = due + 1
  /\ UNCHANGED <<quoteVars, market, reading, index, pins, up, missed, gate, alert, fire, history>>

\* list_active under the reload lock; a failure is logged by the endpoint and
\* leaves the index as it was.
ReloadRead ==
  /\ due > 0 /\ due' = due - 1
  /\ reading = None
  /\ \/ reading' = rules /\ UNCHANGED <<missed, faults>>
     \/ Fault /\ missed' = TRUE /\ UNCHANGED reading
  /\ UNCHANGED <<connection, registry, monitored, subscribed, task, streams, lock,
                 market, rules, index, pins, up, edits, gate, alert, fire, history>>

\* Slip: the last reload is the first to get the stream's lock.
QueuedInFront(syms) == <<syms>> \o pins
\* The stream's lock is fair: pins get it in the order they asked for it.
Queued(syms) == Append(pins, syms)

\* The index is replaced; the pins queue for the stream's lock.
ReloadIndex ==
  /\ reading # None /\ reading' = None
  /\ index' = reading /\ pins' = Queued(SymbolsOf(reading))
  /\ UNCHANGED <<quoteVars, market, rules, due, up, edits, missed, gate, alert, fire, history>>

PinNext ==
  /\ pins # <<>> /\ pins' = Tail(pins)
  /\ Pin(Head(pins))
  /\ UNCHANGED <<market, rules, due, reading, index, up, edits, missed, gate, alert, fire,
                 history>>

\* Slip: the cooldowns are not read back.
RehydratedNot == ForKeys(None)

\* _rehydrate_dedup
Rehydrated == alert

\* The end of start(): the cooldowns come back from the rows, and only then the
\* daemon begins to observe.
StartUp ==
  /\ ~up /\ pins = <<>> /\ lock = None
  /\ up' = TRUE
  /\ \/ last' = Rehydrated /\ UNCHANGED <<slack, faults>>
     \/ /\ Fault /\ UNCHANGED last
        /\ slack' = [k \in Keys |-> IF pushedAt[k] = None THEN slack[k] ELSE slack[k] + 1]
  /\ UNCHANGED <<connection, registry, monitored, subscribed, task, streams, lock, market,
                 rules, due, reading, index, pins, edits, missed, edge, alert, fire,
                 pushedAt, room>>

-----------------------------------------------------------------------------
(* A frame: _on_snapshot, _fire and the DedupGate.                         *)

\* The cooldown floor.
Cool(k, t) == last[k] = None \/ last[k] + Cooldown <= t

\* should_fire
Fires(k, f) == k \in f.seen /\ ~edge[k] /\ Cool(k, f.t)

KeyAt(f, r) == <<r, f.sym>>

\* Slip: the edge of a rule that fires is left for later.
EdgeAtRest(f, judged) ==
  [k \in Keys |-> IF k \in judged /\ ~Fires(k, f) THEN k \in f.seen ELSE edge[k]]

\* Every judged key leaves its judgement behind, whether it fires or not.
EdgeAfter(f, judged) ==
  [k \in Keys |-> IF k \in judged THEN k \in f.seen ELSE edge[k]]

\* Another task has an alert for the same key under way.
Overlapped(n, k) ==
  \E m \in Streams \ {n} : /\ fire[m].at \in {"open", "push", "sent", "failed"}
                           /\ KeyAt(fire[m], fire[m].rule) = k

\* The rules still to do, by their places in the list, up to the first that
\* fires; without one the observer is done and the frame goes out.
Judge(n, f) ==
  LET key(i) == KeyAt(f, Rules[i])
      hits   == {i \in f.todo : Fires(key(i), f)}
      done   == {i \in f.todo : \A j \in hits : i <= j}
      judged == {key(i) : i \in done}
      more(k) == IF k \in judged /\ (k \in f.seen) # cond[k] THEN room[k] + 1 ELSE room[k]
  IN  /\ edge' = EdgeAfter(f, judged)
      /\ \/ /\ hits = {}
            /\ fire' = [fire EXCEPT ![n] = NoFire]
            /\ FanOut(n, f.sym)
            /\ room' = [k \in Keys |-> more(k)]
            /\ UNCHANGED slack
         \/ \E hit \in hits \cap done :
              /\ fire' = [fire EXCEPT ![n] = [f EXCEPT !.at = "open", !.rule = Rules[hit],
                                                       !.todo = @ \ done]]
              /\ Held(n)
              /\ room' = [k \in Keys |-> IF k = key(hit) THEN more(k) - 1 ELSE more(k)]
              /\ slack' = IF Overlapped(n, key(hit))
                          THEN [slack EXCEPT ![key(hit)] = @ + 1] ELSE slack

\* The observer is called: it takes the list of rules, the time and the quote
\* as they are now.
Observe(n, s) ==
  LET watching == {i \in DOMAIN Rules : Rules[i] \in index /\ s \in Scope[Rules[i]]}
  IN  /\ Receives(n, s)
      /\ Judge(n, [NoFire EXCEPT !.sym = s, !.t = now, !.seen = {k \in Keys : cond[k]},
                                 !.todo = IF up THEN watching ELSE {}])
      /\ UNCHANGED <<faults, market, rulesVars, last, alert, pushedAt>>

FireKey(n) == KeyAt(fire[n], fire[n].rule)
FireTo(n, f) == fire' = [fire EXCEPT ![n] = f]
FireOnly == UNCHANGED <<connection, registry, monitored, subscribed, task, lock, market,
                        rulesVars, edge>>

\* The alert's row; without it the alert goes on.  The debug event before it is
\* not guarded: when it raises, the frame is judged no further.
FireInsert(n) ==
  LET k == FireKey(n) IN
  /\ fire[n].at = "open"
  /\ \/ /\ FireTo(n, [fire[n] EXCEPT !.at = "push"])
        /\ alert' = IF alert[k] # None /\ alert[k] > fire[n].t THEN alert
                    ELSE [alert EXCEPT ![k] = fire[n].t]
        /\ UNCHANGED <<faults, streams>>
     \/ /\ Fault
        /\ FireTo(n, [fire[n] EXCEPT !.at = "push"])
        /\ UNCHANGED <<alert, streams>>
     \/ /\ Fault
        /\ FireTo(n, NoFire) /\ FanOut(n, fire[n].sym)
        /\ UNCHANGED alert
  /\ FireOnly /\ UNCHANGED <<last, history>>

\* The message is pushed, or the channel refuses it.
FirePush(n) ==
  LET k == FireKey(n)
      t == fire[n].t
      soon == pushedAt[k] # None /\ t < pushedAt[k] + Cooldown
  IN  /\ fire[n].at = "push"
      /\ \/ /\ FireTo(n, [fire[n] EXCEPT !.at = "sent"])
            /\ pushedAt' = [pushedAt EXCEPT ![k] = t]
            /\ slack' = IF soon THEN [slack EXCEPT ![k] = @ - 1] ELSE slack
            /\ UNCHANGED faults
         \/ /\ Fault
            /\ FireTo(n, [fire[n] EXCEPT !.at = "failed"])
            /\ UNCHANGED <<pushedAt, slack>>
      /\ FireOnly /\ UNCHANGED <<streams, alert, last, room>>

\* The answer is back: the time is recorded for the cooldown, pushed or not.  A
\* slow alert may record an earlier time over a later one.
FireRecord(n) ==
  LET k == FireKey(n)
      back == last[k] # None /\ fire[n].t < last[k]
  IN
  /\ fire[n].at \in {"sent", "failed"}
  /\ last' = [last EXCEPT ![k] = fire[n].t]
  /\ slack' = IF back THEN [slack EXCEPT ![k] = @ + 1] ELSE slack
  /\ FireTo(n, [fire[n] EXCEPT !.at = "mark"])
  /\ FireOnly /\ UNCHANGED <<streams, faults, alert, pushedAt, room>>

\* mark_delivered labels the row, for the reader only; then the next rule.
FireMark(n) ==
  /\ fire[n].at = "mark"
  /\ Judge(n, [fire[n] EXCEPT !.at = "none"])
  /\ UNCHANGED <<faults, market, rulesVars, last, alert, pushedAt>>

-----------------------------------------------------------------------------
(* Together with the stream.                                               *)

\* The task that is cancelled takes the alert it was working on with it: one
\* that was pushed and not recorded may come again within its cooldown.
RebuildCuts(by) ==
  LET cut == {n \in Running : streams'[n] # streams[n]}
  IN  /\ Rebuild(by)
      /\ fire' = [n \in Streams |-> IF n \in cut THEN NoFire ELSE fire[n]]
      /\ slack' = [k \in Keys |->
           slack[k] + Cardinality({n \in cut : fire[n].at = "sent" /\ FireKey(n) = k})]
      /\ UNCHANGED <<market, rulesVars, gate, alert, pushedAt, room>>

\* A pushed alert without a row.
Forgotten(k) == pushedAt[k] # None /\ (alert[k] = None \/ alert[k] < pushedAt[k])

\* The server dies and starts again: rules, alerts and accounts are in the
\* database, all else is lost.
Crash ==
  /\ up /\ Fault
  /\ conn' = account /\ UNCHANGED <<account, moves>>
  /\ joined' = {} /\ wants' = [c \in Clients |-> {}] /\ dead' = {} /\ deaths' = 0
  /\ UNCHANGED sockets
  /\ monitored' = {} /\ subscribed' = {} /\ lock' = None
  /\ task' = None /\ streams' = [n \in Streams |-> NoStream]
  /\ fire' = [n \in Streams |-> NoFire]
  /\ index' = rules /\ pins' = <<SymbolsOf(rules)>>
  /\ due' = 0 /\ reading' = None /\ up' = FALSE /\ missed' = FALSE
  /\ edge' = ForKeys(FALSE) /\ last' = ForKeys(None)
  /\ slack' = [k \in Keys |-> IF Forgotten(k) THEN slack[k] + 1 ELSE slack[k]]
  /\ room' = [k \in Keys |-> room[k] + 1]
  /\ UNCHANGED <<market, rules, edits, alert, pushedAt>>

Quietly(A) == A /\ UNCHANGED monitorVars

Next ==
  \/ Tick \/ NewDay \/ Crash \/ StartUp
  \/ \E k \in Keys : Flip(k)
  \/ \E r \in RuleSet : EditRule(r)
  \/ ReloadRead \/ ReloadIndex \/ PinNext
  \/ Quietly(MoveAccount) \/ Quietly(Refresh)
  \/ \E c \in Clients :
       \/ up /\ \E syms \in Asks : Quietly(Register(c, syms)) \/ Quietly(Update(c, syms))
       \/ Quietly(SocketDies(c)) \/ Quietly(Unregister(c))
  \/ \E by \in Callers : RebuildCuts(by)
  \/ \E n \in Streams :
       \/ \E s \in Symbols : Observe(n, s)
       \/ FireInsert(n) \/ FirePush(n) \/ FireRecord(n) \/ FireMark(n)
       \/ Quietly(DropNext(n)) \/ Quietly(UpstreamDrops(n)) \/ Quietly(Resubscribe(n))

Spec == Init /\ [][Next]_vars

-----------------------------------------------------------------------------
(* What has to hold.                                                       *)

\* Once every edit's reload is through and none failed, the index holds the
\* active rules and the stream has their symbols pinned, in whatever order the
\* edits, the reloads and the pins went (MonitorDaemon.reload_rules).
PinsFollowRules ==
  up /\ due = 0 /\ reading = None /\ pins = <<>> /\ ~missed =>
    index = rules /\ monitored = SymbolsOf(rules)

\* Two alerts of one key are pushed at least a cooldown apart; each exception
\* has a cause of its own: the task was cancelled between the push and the
\* record, two tasks were streaming, or the row was lost before a restart
\* (dedup.py, "MANDATORY - no alert spam").
AlertsSpaced == \A k \in Keys : slack[k] >= 0

\* While a condition stays true it alerts once, and again only after a restart,
\* a new day, or a quote that was judged when it was no longer true.
EpisodeAlertsOnce == \A k \in Keys : room[k] >= 0
=============================================================================
