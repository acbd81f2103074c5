------------------------------ MODULE AssistantRun ------------------------------
(***************************************************************************)
(* One session of the assistant.  Each message starts an attempt: a loop   *)
(* of model calls and tool calls in a background task.  A tool call that a *)
(* rule gates waits for a person's decision; ask_user_question waits for   *)
(* an answer.  A decision may be remembered, for the session or for good.  *)
(* A stop is one flag of the session, raced against model and tool calls.  *)
(* Nothing keeps two attempts of a session apart.                          *)
(*                                                                         *)
(* A step is the code between two awaits of the asyncio loop.              *)
(***************************************************************************)
EXTENDS Naturals

CONSTANTS
  Attempts, None,
  Commands,  \* what the model may ask a tool to do
  Rules,
  RuleOf,    \* the rule that gates a command, or None
  Questions, \* the commands that are ask_user_question
  OneTime,   \* the rules with allow_always = False
  Prefixes,
  Covers,    \* the commands a prefix matches
  Answers,   \* what a person may decide: an action, and a prefix to remember
  MaxCalls, MaxFaults, \* bounds of the model: tool calls of an attempt, failures
  Plans      \* what the model may ask for in each attempt, and how often

Actions == {"approve_once", "approve_always", "approve_persist", "reject"}

ASSUME AssistantAssumption ==
  /\ None \notin Attempts \cup Commands \cup Rules \cup Prefixes /\ Rules \cap Prefixes = {}
  /\ RuleOf \in [Commands -> Rules \cup {None}]
  /\ Questions \subseteq {c \in Commands : RuleOf[c] = None}
  /\ OneTime \subseteq Rules
  /\ Covers \in [Prefixes -> SUBSET Commands]
  /\ Answers \subseteq [action : Actions, prefix : Prefixes \cup {None}]
  /\ \A answer \in Answers : \* approve_persist falls back on a suggested prefix
       IF answer.action = "approve_persist" THEN answer.prefix # None
       ELSE answer.action # "approve_always" => answer.prefix = None
  /\ MaxCalls \in Nat /\ MaxFaults \in Nat
  /\ Plans \subseteq [Attempts -> [menu : SUBSET Commands, calls : 0 .. MaxCalls]]

VARIABLES
  plan,     \* the plan of this behaviour
  config,   \* the session's row: remembered keys and prefixes, the open question
  status,   \* its status
  persist,  \* the prefixes remembered in config.yaml
  stop,     \* the session's abort event
  run,      \* the attempts
  pending,  \* attempts whose request the approval broker knows
  holder,   \* the attempt whose future the question broker has, for each question
  said,     \* the decision the broker accepted for the call an attempt is at
  granted,  \* what people granted: keys and prefixes
  heard,    \* a stop was asked for while the attempt worked, and the event still says so
  begun,    \* model and tool calls begun since it was asked for
  missed,   \* remembered grants that the lists an attempt has read do not show
  leaked,   \* attempts that ended between create and wait
  faults

session == <<plan, config, status>>
broker  == <<pending, holder>>
ghosts  == <<said, granted, heard, begun, missed, leaked>>
vars == <<session, persist, stop, run, broker, ghosts, faults>>

Asked == Attempts \X (1 .. MaxCalls) \* question ids

NoAnswer  == [action |-> "none", prefix |-> None]
Timeout   == [action |-> "timeout", prefix |-> None]
Answered  == [action |-> "answered", prefix |-> None]
Futures   == Answers \cup {NoAnswer, Timeout, Answered}

Configs == [keys : SUBSET Rules, prefixes : SUBSET Prefixes, question : Asked \cup {None}]
NoConfig == [keys |-> {}, prefixes |-> {}, question |-> None]
Memory(c) == c.keys \cup c.prefixes

Gate     == {"gate", "announce", "wait", "decided", "remember", "remembering"}
Question == {"ask", "asking", "publish", "asked", "answer", "clear", "clearing"}
Holds    == {"announce", "wait", "decided", "remember", "remembering", "asking", "clearing"}
Slot     == Gate \cup {"run"} \cup Question
Working  == {"begin", "turn", "model", "chosen", "call", "after"} \cup Slot
Ending   == {"unwind", "finish", "complete"}
Places   == {"unused", "over"} \cup Working \cup Ending

Runs == [at : Places, end : {"none", "done", "stopped", "error", "dead"},
         n : Nat, cmd : Commands \cup {None},
         woken : BOOLEAN, late : BOOLEAN, future : Futures,
         read : Configs, base : Configs, q : Asked \cup {None}]
Unused == [at |-> "unused", end |-> "none", n |-> 0, cmd |-> None,
           woken |-> FALSE, late |-> FALSE, future |-> NoAnswer,
           read |-> NoConfig, base |-> NoConfig, q |-> None]

Live == {a \in Attempts : run[a].at \in Working \cup Ending}

TypeOK ==
  /\ plan \in Plans /\ config \in Configs /\ status \in {"idle", "running", "error"}
  /\ persist \subseteq Prefixes
  /\ stop \in BOOLEAN
  /\ run \in [Attempts -> Runs]
  /\ pending \subseteq Attempts
  /\ holder \in [Asked -> Attempts \cup {None}]
  /\ said \in [Attempts -> Answers \cup {NoAnswer}]
  /\ granted \subseteq Rules \cup Prefixes
  /\ heard \in [Attempts -> BOOLEAN]
  /\ begun \in [Attempts -> Nat]
  /\ missed \in [Attempts -> SUBSET (Rules \cup Prefixes)] /\ leaked \subseteq Attempts
  /\ faults \in Nat

Init ==
  /\ plan \in Plans /\ config = NoConfig /\ status = "idle" /\ persist = {}
  /\ stop = FALSE
  /\ run = [a \in Attempts |-> Unused]
  /\ pending = {} /\ holder = [q \in Asked |-> None]
  /\ said = [a \in Attempts |-> NoAnswer] /\ granted = {}
  /\ heard = [a \in Attempts |-> FALSE] /\ begun = [a \in Attempts |-> 0]
  /\ missed = [a \in Attempts |-> {}] /\ leaked = {} /\ faults = 0

Fault == faults < MaxFaults /\ faults' = faults + 1
Goes(a, place) == run' = [run EXCEPT ![a].at = place]
Ends(a, how) ==
  run' = [run EXCEPT ![a] = [Unused EXCEPT !.at = "unwind", !.end = how,
                                           !.cmd = run[a].cmd,
                    !.future = IF run[a].at \in {"announce", "asked"} THEN run[a].future ELSE NoAnswer]]

\* _clear_abort_event: the event is one for all attempts of the session.
ClearStop == stop' = FALSE /\ heard' = [a \in Attempts |-> FALSE]
             /\ begun' = [a \in Attempts |-> 0]

Begins(a) == begun' = IF heard[a] THEN [begun EXCEPT ![a] = @ + 1] ELSE begun
Quiet == UNCHANGED ghosts

-----------------------------------------------------------------------------
(* send_message and stop_attempt                                           *)

\* A message that answers an open question starts no attempt (Answer).
Send(a) ==
  /\ run[a].at = "unused"
  /\ \A q \in Asked : config.question = q => holder[q] = None
  /\ ClearStop
  /\ Goes(a, "begin") /\ status' = "running"
  /\ UNCHANGED <<plan, config, persist, broker, said, granted, missed, leaked, faults>>

\* Whoever waits on the event is woken, even if it is cleared before it runs.
Stop ==
  /\ ~stop /\ stop' = TRUE
  /\ run' = [a \in Attempts |->
       IF run[a].at \in Slot \cup {"model"} THEN [run[a] EXCEPT !.woken = TRUE] ELSE run[a]]
  /\ heard' = [a \in Attempts |-> IF run[a].at \in Working THEN TRUE ELSE heard[a]]
  /\ UNCHANGED <<session, persist, broker, said, granted, begun, missed, leaked, faults>>

Begin(a) ==
  /\ run[a].at = "begin"
  /\ IF stop THEN Ends(a, "stopped") ELSE Goes(a, "turn")
  /\ UNCHANGED <<session, persist, stop, broker, ghosts, faults>>

-----------------------------------------------------------------------------
(* The loop of _run_loop: a model call, then its tool calls                *)

\* Slip: the stop is not looked at before a model call.
TurnBlindly(a) ==
  /\ run[a].at = "turn"
  /\ \/ run[a].n = plan[a].calls /\ Goes(a, "finish") /\ begun' = begun
     \/ run[a].n < plan[a].calls /\ Goes(a, "model") /\ Begins(a)
  /\ UNCHANGED <<session, persist, stop, broker, said, granted, heard, missed, leaked, faults>>

Turn(a) ==
  /\ run[a].at = "turn"
  /\ \/ run[a].n = plan[a].calls /\ Goes(a, "finish") /\ begun' = begun
     \/ run[a].n < plan[a].calls /\ stop /\ Ends(a, "stopped") /\ begun' = begun
     \/ run[a].n < plan[a].calls /\ ~stop /\ Goes(a, "model") /\ Begins(a)
  /\ UNCHANGED <<session, persist, stop, broker, said, granted, heard, missed, leaked, faults>>

Picks(a) ==
  \E c \in plan[a].menu :
    /\ run' = [run EXCEPT ![a] = [Unused EXCEPT !.at = "chosen", !.n = run[a].n + 1, !.cmd = c]]
    /\ said' = [said EXCEPT ![a] = NoAnswer]

Model(a) ==
  /\ run[a].at = "model"
  /\ \/ run' = [run EXCEPT ![a].at = "finish", ![a].woken = FALSE] /\ said' = said
     \/ Picks(a)
  /\ UNCHANGED <<session, persist, stop, broker, granted, heard, begun, missed, leaked, faults>>

\* _await_with_abort, woken by a stop: it looks at the event again, and without it
\* asks an unfinished call for its result, which raises.
ModelStopped(a) ==
  /\ run[a].at = "model" /\ run[a].woken
  /\ Ends(a, IF stop THEN "stopped" ELSE "error")
  /\ UNCHANGED <<session, persist, stop, broker, ghosts, faults>>

ModelFails(a) ==
  /\ run[a].at = "model" /\ Fault /\ Ends(a, "error")
  /\ UNCHANGED <<session, persist, stop, broker, ghosts>>

Chosen(a) ==
  /\ run[a].at = "chosen"
  /\ IF stop THEN Ends(a, "stopped") ELSE Goes(a, "call")
  /\ UNCHANGED <<session, persist, stop, broker, ghosts, faults>>

\* The slot is raced against the event, which may have been set meanwhile.
Call(a) ==
  /\ run[a].at = "call"
  /\ run' = [run EXCEPT ![a].at = IF RuleOf[run[a].cmd] = None THEN "run" ELSE "gate",
                        ![a].woken = stop]
  /\ Begins(a)
  /\ UNCHANGED <<session, persist, stop, broker, said, granted, heard, missed, leaked, faults>>

\* The result is in the transcript: the next call of the response, or a turn.
After(a) ==
  /\ run[a].at = "after"
  /\ \/ run' = [run EXCEPT ![a] = [Unused EXCEPT !.at = "turn", !.n = run[a].n]] /\ said' = [said EXCEPT ![a] = NoAnswer]
     \/ run[a].n < plan[a].calls /\ Picks(a)
  /\ missed' = [missed EXCEPT ![a] = {}]
  /\ UNCHANGED <<session, persist, stop, broker, granted, heard, begun, leaked, faults>>

-----------------------------------------------------------------------------
(* _gate_tool_call_for_approval                                            *)

Remembers(rule, cmd, keys, prefixes) ==
  rule \in keys \/ \E p \in prefixes : cmd \in Covers[p]

\* Slip: one-time rules are looked up like the others.
IsAutoApprovedAll(a, keys, prefixes) == Remembers(RuleOf[run[a].cmd], run[a].cmd, keys, prefixes)

IsAutoApproved(a, keys, prefixes) ==
  /\ RuleOf[run[a].cmd] \notin OneTime
  /\ Remembers(RuleOf[run[a].cmd], run[a].cmd, keys, prefixes)

\* Either allowlist may fail to be read, and is then empty.
AsksApproval(a) ==
  /\ run[a].at = "gate"
  /\ \E mine \in {config, NoConfig}, all \in {persist, {}} :
       /\ IF mine = config /\ all = persist THEN faults' = faults ELSE Fault
       /\ IF IsAutoApproved(a, mine.keys, mine.prefixes \cup all)
            THEN Goes(a, "run") /\ pending' = pending
            ELSE /\ run' = [run EXCEPT ![a].at = "announce",
                                       ![a].read = [mine EXCEPT !.question = None]]
                 /\ pending' = pending \cup {a}
       /\ missed' = [missed EXCEPT ![a] = Memory(config) \ Memory(mine)]
  /\ UNCHANGED <<session, persist, stop, holder, said, granted, heard, begun, leaked>>

\* The event is stored and the card sent; a card that fails is only reported.
Announced(a) ==
  /\ \/ run[a].at = "announce" /\ Goes(a, "wait")
     \/ run[a].at = "asked" /\ Goes(a, "answer")
  /\ UNCHANGED <<session, persist, stop, broker, ghosts, faults>>

\* What a decision on a command grants for later calls.
Given(cmd, answer) ==
  IF RuleOf[cmd] \in OneTime THEN {}
  ELSE ({answer.prefix} \ {None})
         \cup (IF answer.action = "approve_always" /\ answer.prefix = None THEN {RuleOf[cmd]} ELSE {})

\* A decision on the web page or on the card.
Resolve(a, answer) ==
  /\ a \in pending /\ run[a].future = NoAnswer
  /\ run' = [run EXCEPT ![a].future = answer]
  /\ said' = [said EXCEPT ![a] = answer]
  /\ granted' = granted \cup Given(run[a].cmd, answer)
  /\ UNCHANGED <<session, persist, stop, broker, heard, begun, missed, leaked, faults>>

\* Slip: a question has no timeout.
ExpiresApprovals(a) ==
  /\ run[a].at = "wait" /\ ~run[a].late
  /\ run[a].future = NoAnswer
  /\ run' = [run EXCEPT ![a].late = TRUE]
  /\ UNCHANGED <<session, persist, stop, broker, ghosts, faults>>

\* The timer of wait_for; the task has yet to run and look at its future.
Expires(a) ==
  /\ run[a].at \in {"wait", "answer"} /\ ~run[a].late
  /\ run[a].future = NoAnswer
  /\ run' = [run EXCEPT ![a].late = TRUE]
  /\ UNCHANGED <<session, persist, stop, broker, ghosts, faults>>

\* Slip: a wait that timed out answers "timeout" whatever came meanwhile.
OutcomeLate(a) == IF run[a].late THEN Timeout ELSE run[a].future

Outcome(a) == IF run[a].future = NoAnswer THEN Timeout ELSE run[a].future
Wakes(a) == run[a].late \/ run[a].future # NoAnswer

Decided(a) ==
  /\ run[a].at = "wait" /\ Wakes(a)
  /\ run' = [run EXCEPT ![a].at = "decided", ![a].future = Outcome(a)]
  /\ pending' = pending \ {a}
  /\ UNCHANGED <<session, persist, stop, holder, ghosts, faults>>

Refused(a) ==
  \/ run[a].future.action \in {"timeout", "reject"}
  \/ run[a].future.action \in {"approve_always", "approve_persist"} /\ RuleOf[run[a].cmd] \in OneTime

\* The event is stored; config.yaml is read and written in one step, which may fail.
Judges(a) ==
  /\ run[a].at = "decided"
  /\ \/ Refused(a) /\ Goes(a, "after") /\ UNCHANGED <<persist, faults>>
     \/ ~Refused(a) /\ run[a].future.action = "approve_once" /\ Goes(a, "run")
          /\ UNCHANGED <<persist, faults>>
     \/ ~Refused(a) /\ run[a].future.action = "approve_always" /\ Goes(a, "remember")
          /\ UNCHANGED <<persist, faults>>
     \/ /\ ~Refused(a) /\ run[a].future.action = "approve_persist" /\ Goes(a, "run")
        /\ \/ persist' = persist \cup {run[a].future.prefix} /\ faults' = faults
           \/ Fault /\ persist' = persist
  /\ UNCHANGED <<session, stop, broker, ghosts>>

-----------------------------------------------------------------------------
(* The tool, ask_user_question, and the session's config                   *)

RunsTool(a) ==
  /\ run[a].at = "run"
  /\ Goes(a, IF run[a].cmd \in Questions THEN "ask" ELSE "after")
  /\ UNCHANGED <<session, persist, stop, broker, ghosts, faults>>

\* update_session_config reads the row, merges, and writes it.
Writing == [remember |-> "remembering", ask |-> "asking", clear |-> "clearing"]
Reads(a) ==
  /\ run[a].at \in DOMAIN Writing
  /\ run' = [run EXCEPT ![a].at = Writing[@], ![a].base = config]
  /\ UNCHANGED <<session, persist, stop, broker, ghosts, faults>>

\* _remember_session_approval merges with the lists read before the wait.
Grants(a) ==
  IF run[a].future.prefix = None
    THEN [run[a].base EXCEPT !.keys = run[a].read.keys \cup {RuleOf[run[a].cmd]}]
    ELSE [run[a].base EXCEPT !.prefixes = run[a].read.prefixes \cup {run[a].future.prefix}]

\* Slip: the patch is written over the config, not merged into it.
PatchedOver(a) ==
  IF run[a].at = "asking" THEN [NoConfig EXCEPT !.question = <<a, run[a].n>>]
  ELSE IF run[a].at = "clearing" THEN NoConfig
  ELSE Grants(a)

Patched(a) ==
  CASE run[a].at = "remembering" -> Grants(a)
    [] run[a].at = "asking"      -> [run[a].base EXCEPT !.question = <<a, run[a].n>>]
    [] run[a].at = "clearing"    -> [run[a].base EXCEPT !.question = None]

\* A write that fails leaves a grant unremembered, a question unasked or uncleared.
Writes(a) ==
  /\ run[a].at \in {"remembering", "asking", "clearing"}
  /\ \/ /\ config' = Patched(a) /\ faults' = faults
        /\ Goes(a, CASE run[a].at = "remembering" -> "run"
                     [] run[a].at = "asking" -> "publish" [] OTHER -> "after")
     \/ /\ Fault /\ config' = config
        /\ Goes(a, IF run[a].at = "remembering" THEN "run" ELSE "after")
  /\ missed' = [b \in Attempts |-> IF b = a THEN {} ELSE
                  IF run[b].at \in Holds THEN missed[b] \cup (Memory(config') \ Memory(config))
                                         ELSE missed[b]]
  /\ UNCHANGED <<plan, status, persist, stop, broker, said, granted, heard, begun, leaked>>

\* _await_user_question_answer asks what the session's row holds now.
Publishes(a) ==
  /\ run[a].at = "publish"
  /\ IF config.question = None THEN Goes(a, "after") /\ holder' = holder
     ELSE /\ run' = [run EXCEPT ![a] = [run[a] EXCEPT !.at = "asked", !.q = config.question,
                                                      !.future = NoAnswer, !.late = FALSE]]
          /\ holder' = [holder EXCEPT ![config.question] = a]
  /\ UNCHANGED <<session, persist, stop, pending, ghosts, faults>>

\* The answer endpoint, or a message while the question is open.
Answer(q) ==
  /\ holder[q] # None /\ run[holder[q]].future = NoAnswer
  /\ run' = [run EXCEPT ![holder[q]].future = Answered]
  /\ UNCHANGED <<session, persist, stop, broker, ghosts, faults>>

IsAnswered(a) ==
  /\ run[a].at = "answer" /\ Wakes(a)
  /\ Goes(a, "clear")
  /\ holder' = [holder EXCEPT ![run[a].q] = None]
  /\ UNCHANGED <<session, persist, stop, pending, ghosts, faults>>

-----------------------------------------------------------------------------
(* The end of a slot, and of the attempt                                   *)

\* Slip: a stopped wait leaves its request behind.
LeavesAll(a) == UNCHANGED <<broker, ghosts>>

\* The request of a wait is discarded whatever ends it; one that is being
\* announced is not.
Leaves(a) ==
  /\ pending' = IF run[a].at = "wait" THEN pending \ {a} ELSE pending
  /\ holder' = IF run[a].at = "answer" THEN [holder EXCEPT ![run[a].q] = None] ELSE holder
  /\ leaked' = IF run[a].at \in {"announce", "asked"} THEN leaked \cup {a} ELSE leaked
  /\ said' = [said EXCEPT ![a] = NoAnswer]
  /\ missed' = [missed EXCEPT ![a] = {}]
  /\ UNCHANGED <<granted, heard, begun>>

StopsTool(a) ==
  /\ run[a].at \in Slot /\ run[a].woken
  /\ Leaves(a) /\ Ends(a, "stopped")
  /\ UNCHANGED <<session, persist, stop, faults>>

\* An event of the gate or of the question cannot be stored, and the call raises.
SlotFails(a) ==
  /\ run[a].at \in {"gate", "announce", "decided", "asked", "clearing"} /\ Fault
  /\ Leaves(a) /\ Ends(a, "error")
  /\ UNCHANGED <<session, persist, stop>>

Unwinds(a) ==
  /\ run[a].at = "unwind"
  /\ status' = IF run[a].end = "error" THEN "error" ELSE "idle"
  /\ Goes(a, "finish")
  /\ UNCHANGED <<plan, config, persist, stop, broker, ghosts, faults>>

\* The finally of _run_and_finalize.
Finishes(a) ==
  /\ run[a].at = "finish" /\ ClearStop
  /\ Goes(a, IF run[a].end = "none" THEN "complete" ELSE "over")
  /\ UNCHANGED <<session, persist, broker, said, granted, missed, leaked, faults>>

Completes(a) ==
  /\ run[a].at = "complete" /\ status' = "idle"
  /\ run' = [run EXCEPT ![a].at = "over", ![a].end = "done"]
  /\ UNCHANGED <<plan, config, persist, stop, broker, ghosts, faults>>

\* The process dies; the rows stay.
Restart ==
  /\ Live # {} /\ Fault
  /\ run' = [a \in Attempts |-> IF a \in Live THEN [Unused EXCEPT !.at = "over", !.end = "dead"]
                                ELSE run[a]]
  /\ ClearStop /\ pending' = {} /\ holder' = [q \in Asked |-> None]
  /\ said' = [a \in Attempts |-> NoAnswer] /\ missed' = [a \in Attempts |-> {}]
  /\ UNCHANGED <<session, persist, granted, leaked>>

-----------------------------------------------------------------------------

Step(a) ==
  \/ Begin(a) \/ Turn(a) \/ Model(a) \/ ModelStopped(a) \/ Chosen(a) \/ Call(a) \/ After(a)
  \/ AsksApproval(a) \/ Announced(a) \/ Expires(a) \/ Decided(a) \/ Judges(a)
  \/ RunsTool(a) \/ Reads(a) \/ Writes(a) \/ Publishes(a) \/ IsAnswered(a) \/ StopsTool(a)
  \/ Unwinds(a) \/ Finishes(a) \/ Completes(a)

Next ==
  \/ Stop \/ Restart
  \/ \E a \in Attempts : \/ Send(a) \/ Step(a) \/ ModelFails(a) \/ SlotFails(a)
                         \/ \E answer \in Answers : Resolve(a, answer)
  \/ \E q \in Asked : Answer(q)

Spec == Init /\ [][Next]_vars

\* The loop runs every task that can run, timers fire, and models and tools return.
FairSpec == Spec /\ \A a \in Attempts : WF_vars(Step(a))

-----------------------------------------------------------------------------
(* Properties                                                              *)

Approves(answer) == answer.action \in {"approve_once", "approve_always", "approve_persist"}

\* A gated tool runs only with consent: the person approved this very call, or
\* its rule can be remembered and a grant given earlier covers it.  A one-time
\* rule is approved each time anew, and an "always" for it approves nothing.
ConsentFirst ==
  \A a \in Attempts : LET cmd == run[a].cmd  rule == RuleOf[cmd] IN
    run[a].at \in {"remember", "remembering", "run"} /\ rule # None =>
      \/ Approves(said[a]) /\ (rule \in OneTime => said[a].action = "approve_once")
      \/ rule \notin OneTime /\ Remembers(rule, cmd, granted, granted \cap Prefixes)

\* A decision the broker accepted is the one the call obeys, though the timer
\* may have fired before the call looked: a call that ran on although a person
\* refused it, or was refused although it was approved, contradicts what the
\* person was told.
AnswerStands ==
  \A a \in Attempts : said[a] # NoAnswer =>
    /\ run[a].at = "decided" => run[a].future = said[a]
    /\ said[a].action = "reject" => run[a].at \notin {"remember", "remembering", "run"}

\* A request the broker lists has a call that will act on it, unless the
\* attempt ended while it was being announced.
OpenIsAwaited ==
  /\ \A a \in pending \ leaked : run[a].at \in {"announce", "wait"}
  /\ \A q \in Asked : holder[q] \notin leaked \cup {None} =>
       run[holder[q]].at \in {"asked", "answer"} /\ run[holder[q]].q = q

\* After a stop that no other message or ending attempt undid, an attempt begins at most
\* the one call it had already chosen.
StopIsPrompt == \A a \in Attempts : heard[a] => begun[a] <= 1

\* What a session remembers stays remembered: a grant is written over only by an attempt
\* that could not know it, because its read of the lists failed or the grant came after it.
GrantsKept == [][\A g \in Memory(config) \ Memory(config') :
  \E a \in Attempts : run[a].at \in Holds /\ run'[a].at \notin Holds /\ g \in missed[a]]_vars

\* Every attempt ends: no question, approval, stop or failure leaves one waiting for ever
\* (an attempt is used once, and their number is bounded).
AttemptsEnd == []<>(Live = {})

=============================================================================
