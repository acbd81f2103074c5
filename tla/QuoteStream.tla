---------------------------- MODULE QuoteStream ----------------------------
(***************************************************************************)
(* The quote fan-out service.  Browser clients register the symbols they   *)
(* watch, the monitoring daemon pins its own, and one background task      *)
(* streams the union from the broker's proxy: a frame goes to the observer *)
(* and then to every client that wants it.  Registrations, pins and        *)
(* refreshes of the account go one at a time under a lock; a client whose  *)
(* socket is dead is unregistered by its own handler or, when a send       *)
(* fails, by the streaming task itself.                                    *)
(*                                                                         *)
(* Only a connection to the proxy streams; without one, and on the polling *)
(* fallback, the connection is None here.  What the observer does with a   *)
(* frame is in MonitorDaemon.                                              *)
(***************************************************************************)
EXTENDS Naturals, FiniteSets

CONSTANTS
  Clients, Symbols,
  Asks,      \* the sets of symbols a client may ask for
  Accounts,  \* default accounts that lead to a proxy
  Streams,   \* identities of streaming tasks
  None,
  MaxSockets, MaxMoves, MaxFaults \* bounds: registrations, changes of the account, failures

\* A task that goes on beside the tracked one has cost a socket, so that there
\* is always an identity for a new one.
ASSUME QuoteAssumption ==
  /\ None \notin Accounts \cup Streams \cup Clients \cup {"daemon", "refresh"}
  /\ Clients \cap Streams = {} /\ {"daemon", "refresh"} \cap (Clients \cup Streams) = {}
  /\ IsFiniteSet(Clients) /\ Asks \subseteq SUBSET Symbols
  /\ MaxSockets \in Nat /\ MaxMoves \in Nat /\ MaxFaults \in Nat
  /\ IsFiniteSet(Streams) /\ Cardinality(Streams) > MaxSockets

VARIABLES
  account,    \* what the resolver answers
  conn,       \* the account the connection was built for
  joined,     \* registered clients
  wants,      \* the symbols each of them asked for
  dead,       \* registered clients whose socket is gone
  monitored,  \* symbols pinned by the daemon
  subscribed, \* _subscribed_union
  task,       \* _stream_task
  streams,    \* the streaming tasks
  lock,       \* who holds _lock
  sockets, moves, faults, \* how many there were
  deaths      \* how many sockets died

registry   == <<joined, wants, dead, sockets, deaths>>
connection == <<account, conn, moves>>
quoteVars == <<connection, registry, monitored, subscribed, task, streams, lock, faults>>

Wanted    == monitored \cup UNION {wants[c] : c \in joined}
Running   == {n \in Streams : streams[n].at # "none"}
NoStream  == [at |-> "none", symbols |-> {}, drop |-> {}]
StreamRec == [at : {"none", "idle", "observe", "drop", "backoff"},
              symbols : SUBSET Symbols, drop : SUBSET Clients]
Callers   == Clients \cup Streams \cup {"daemon", "refresh"}

QuoteTypeOK ==
  /\ account \in Accounts \cup {None} /\ conn \in Accounts \cup {None}
  /\ joined \subseteq Clients /\ dead \subseteq joined
  /\ wants \in [Clients -> SUBSET Symbols]
  /\ monitored \subseteq Symbols /\ subscribed \subseteq Symbols
  /\ task \in Streams \cup {None}
  /\ streams \in [Streams -> StreamRec]
  /\ lock \in Callers \cup {None}
  /\ sockets \in Nat /\ moves \in Nat /\ faults \in Nat /\ deaths \in Nat

\* start() makes the first connection before anything registers.
QuoteInit ==
  /\ account \in Accounts \cup {None} /\ conn = account
  /\ joined = {} /\ wants = [c \in Clients |-> {}] /\ dead = {}
  /\ monitored = {} /\ subscribed = {}
  /\ task = None /\ streams = [n \in Streams |-> NoStream]
  /\ lock = None
  /\ sockets = 0 /\ moves = 0 /\ faults = 0 /\ deaths = 0

Fault == faults < MaxFaults /\ faults' = faults + 1

-----------------------------------------------------------------------------
(* The registry.  Each operation takes the lock, changes the registry and  *)
(* goes on in Rebuild, which releases the lock.                            *)

Takes(by) == lock = None /\ lock' = by

\* register
Register(c, syms) ==
  /\ c \notin joined /\ sockets < MaxSockets
  /\ Takes(c)
  /\ joined' = joined \cup {c} /\ wants' = [wants EXCEPT ![c] = syms]
  /\ sockets' = sockets + 1
  /\ UNCHANGED <<connection, dead, deaths, monitored, subscribed, task, streams, faults>>

\* The socket closes, or stops taking frames.
SocketDies(c) ==
  /\ c \in joined \ dead
  /\ dead' = dead \cup {c} /\ deaths' = deaths + 1
  /\ UNCHANGED <<connection, joined, wants, sockets, monitored, subscribed, task,
                 streams, lock, faults>>

\* unregister, up to the rebuild; nothing is left to do when the client is gone.
Drops(c) ==
  /\ joined' = joined \ {c} /\ dead' = dead \ {c}
  /\ wants' = [wants EXCEPT ![c] = {}]

\* The handler of a closed socket, or of one whose first frame failed.
Unregister(c) ==
  /\ c \in dead
  /\ Takes(c)
  /\ Drops(c)
  /\ UNCHANGED <<connection, sockets, deaths, monitored, subscribed, task, streams, faults>>

\* update_subscription
Update(c, syms) ==
  /\ c \in joined \ dead /\ syms # wants[c]
  /\ Takes(c)
  /\ wants' = [wants EXCEPT ![c] = syms]
  /\ UNCHANGED <<connection, joined, dead, sockets, deaths, monitored, subscribed, task, streams, faults>>

\* set_monitored_symbols
Pin(syms) ==
  /\ lock = None
  /\ lock' = IF syms = monitored THEN None ELSE "daemon"
  /\ monitored' = syms
  /\ UNCHANGED <<connection, registry, subscribed, task, streams, faults>>

\* The account changes; refresh() is called by a background poll.
MoveAccount ==
  /\ moves < MaxMoves /\ moves' = moves + 1
  /\ account' \in (Accounts \cup {None}) \ {account}
  /\ UNCHANGED <<conn, registry, monitored, subscribed, task, streams, lock, faults>>

Refresh ==
  /\ account # conn
  /\ Takes("refresh")
  /\ UNCHANGED <<connection, registry, monitored, subscribed, task, streams, faults>>

-----------------------------------------------------------------------------
(* _rebuild_stream_task_locked, with _refresh_connection_locked in front.  *)

\* Slip: the old task is forgotten and never cancelled.
CancelledNever(by) == streams

\* _cancel_stream_task_locked.  A task that awaits its own cancellation gets it
\* in that very await, where it is suppressed: it goes on, and nothing refers
\* to it any more.
Cancelled(by) ==
  IF task \in {None, by} THEN streams ELSE [streams EXCEPT ![task] = NoStream]

Started(ss, syms) ==
  LET n == CHOOSE m \in Streams : ss[m].at = "none"
  IN  <<n, [ss EXCEPT ![n] = [NoStream EXCEPT !.at = "idle", !.symbols = syms]]>>

\* The union is unchanged and streams already.
Keeps(there) == there /\ Wanted = subscribed

\* The stream of the new union; only a connection streams, and a refresh by
\* itself starts nothing.
Restream(by, sig, ss, there) ==
  IF by = "refresh" \/ Keeps(there)
  THEN /\ streams' = ss /\ task' = IF there THEN task ELSE None
       /\ subscribed' = subscribed
  ELSE IF sig = None
  THEN streams' = ss /\ task' = (IF there THEN task ELSE None) /\ subscribed' = Wanted
  ELSE /\ subscribed' = Wanted
       /\ IF Wanted = {}
          THEN task' = None /\ streams' = Cancelled(by)
          ELSE \E p \in {Started(Cancelled(by), Wanted)} : task' = p[1] /\ streams' = p[2]

\* A resolver that raises keeps the connection; a factory that raises leaves
\* none, to be tried again.  Another signature tears the old connection down.
Rebuild(by) ==
  /\ lock = by /\ by # None
  /\ lock' = None
  /\ \E sig \in {account, conn, None} :
       /\ \/ sig = account /\ UNCHANGED faults
          \/ sig \in {conn, None} /\ sig # account /\ account # conn /\ Fault
       /\ conn' = sig
       /\ IF sig = conn THEN Restream(by, sig, streams, task # None)
                        ELSE Restream(by, sig, Cancelled(by), FALSE)
  /\ UNCHANGED <<account, moves, registry, monitored>>

-----------------------------------------------------------------------------
(* The streaming tasks: _run_stream, _on_quote_data, _fanout.              *)

StreamTo(n, at) == streams' = [streams EXCEPT ![n].at = at]
StreamOnly == UNCHANGED <<connection, registry, monitored, subscribed, task, lock>>

\* A frame of a symbol arrives; the observer is called at once.
Receives(n, s) == streams[n].at = "idle" /\ lock # n /\ s \in streams[n].symbols

\* The observer has to wait for something in the midst of it.
Held(n) == StreamTo(n, "observe") /\ StreamOnly

\* The observer is done: the frame goes to the clients that want its symbol,
\* and those that do not take it are kept to be dropped.
FanOut(n, s) ==
  LET gone == {c \in dead : s \in wants[c]}
  IN  /\ streams' = [streams EXCEPT ![n].at = IF gone = {} THEN "idle" ELSE "drop",
                                    ![n].drop = gone]
      /\ StreamOnly

\* unregister by the streaming task, for one client that did not take the frame.
DropNext(n) ==
  /\ streams[n].at = "drop" /\ lock = None
  /\ \E c \in streams[n].drop :
       /\ streams' = [streams EXCEPT ![n].drop = @ \ {c},
                        ![n].at = IF streams[n].drop = {c} THEN "idle" ELSE "drop"]
       /\ IF c \in joined THEN lock' = n /\ Drops(c)
                          ELSE UNCHANGED <<lock, joined, dead, wants>>
  /\ UNCHANGED <<connection, sockets, deaths, monitored, subscribed, task, faults>>

\* The upstream ends or fails; the task waits and subscribes again.
UpstreamDrops(n) ==
  /\ streams[n].at = "idle" /\ lock # n /\ Fault
  /\ StreamTo(n, "backoff")
  /\ StreamOnly

Resubscribe(n) ==
  /\ streams[n].at = "backoff" /\ conn # None
  /\ StreamTo(n, "idle")
  /\ StreamOnly /\ UNCHANGED faults

-----------------------------------------------------------------------------
(* What has to hold.                                                       *)

\* While nobody holds the lock, the tracked task runs, it streams exactly what
\* the daemon and the clients asked for, and there is none without a connection;
\* another task goes on beside it only after it dropped a dead client itself,
\* so that there are never more of them than sockets that died
\* (_rebuild_stream_task_locked, _cancel_stream_task_locked).
StreamServesUnion ==
  /\ lock = None => /\ subscribed = Wanted \/ task = None
                    /\ task # None => /\ task \in Running /\ streams[task].symbols = Wanted
                                      /\ conn # None
  /\ Cardinality(Running \ {task}) <= deaths

\* "So configuring / changing the default QMT account at runtime reconnects live
\* quotes without a server restart" (bootstrap.py:633).  It does not hold:
\* refresh() tears the streaming task down and leaves the rebuild to the next
\* registration or pin.
ConnectedIsStreaming ==
  lock = None /\ conn # None /\ Wanted # {} => task # None
=============================================================================
