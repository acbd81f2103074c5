-------------------------- MODULE AssistantRunProofs --------------------------
(***************************************************************************)
(* Proofs about AssistantRun for any attempts, commands, rules, prefixes   *)
(* and decisions, and any number of tool calls and failures.               *)
(*                                                                         *)
(* The inductive invariant says what an attempt's record holds at each     *)
(* place (CountInv), which decision a gated call has heard and that it is  *)
(* granted (SaidInv), that every remembered list is granted (GrantInv),    *)
(* whom the brokers can still reach (BrokerInv), how a stop bounds what    *)
(* begins (StopInv), and that what the session remembers and an attempt's  *)
(* copy of its lists does not show is among what it has missed (MissedInv).*)
(***************************************************************************)
EXTENDS AssistantRun, TLAPS

\* The record of an attempt: how many tool calls it has made, the command it is at,
\* the rule that gates it, the question it waits on.
CountFor(a) ==
  /\ run[a].n <= plan[a].calls
  /\ run[a].at = "model" => run[a].n < plan[a].calls
  /\ run[a].at \in {"chosen", "call", "after"} \cup Slot => run[a].n > 0 /\ run[a].cmd \in Commands
  /\ run[a].at \in Gate => RuleOf[run[a].cmd] # None
  /\ run[a].at \in {"asked", "answer"} => run[a].q \in Asked

CountInv == \A a \in Attempts : CountFor(a)

\* The decision a gated call has heard is the one the broker accepted, and what it
\* gives for later calls is granted.
SaidFor(a) ==
  /\ run[a].at \in {"chosen", "call", "gate"} => said[a] = NoAnswer /\ run[a].future = NoAnswer
  /\ run[a].at \in {"announce", "wait"} => run[a].future = said[a]
  /\ run[a].at = "decided" =>
       \/ said[a] # NoAnswer /\ run[a].future = said[a]
       \/ said[a] = NoAnswer /\ run[a].future = Timeout
  /\ run[a].at \in {"remember", "remembering"} =>
       /\ said[a] # NoAnswer /\ run[a].future = said[a]
       /\ said[a].action = "approve_always" /\ RuleOf[run[a].cmd] \notin OneTime
  /\ run[a].at = "run" => said[a] = NoAnswer \/ Approves(said[a])
  /\ run[a].at \in Gate /\ said[a] # NoAnswer => Given(run[a].cmd, said[a]) \subseteq granted

\* A call that runs, or is about to remember a decision, has consent.
ConsentFor(a) ==
  run[a].at \in {"remember", "remembering", "run"} /\ RuleOf[run[a].cmd] # None =>
    \/ Approves(said[a]) /\ (RuleOf[run[a].cmd] \in OneTime => said[a].action = "approve_once")
    \/ /\ RuleOf[run[a].cmd] \notin OneTime
       /\ Remembers(RuleOf[run[a].cmd], run[a].cmd, granted, granted \cap Prefixes)

SaidInv == \A a \in Attempts : SaidFor(a) /\ ConsentFor(a)

\* A list of remembered keys and prefixes holds only what was granted.
Granted(c) == c.keys \cup c.prefixes \subseteq granted

GrantInv == /\ Granted(config) /\ persist \subseteq granted
            /\ \A a \in Attempts : Granted(run[a].read) /\ Granted(run[a].base)

\* A request that is open belongs to an attempt that waits on it, or to one that
\* ended while it was being announced.
BrokerInv ==
  /\ OpenIsAwaited
  /\ \A a \in leaked : run[a].at \in Ending \cup {"over"}
  /\ \A a \in pending : run[a].cmd \in Commands /\ RuleOf[run[a].cmd] # None

\* After a stop an attempt begins the call it had chosen, and no other.
StopFor(a) ==
  /\ heard[a] => stop /\ begun[a] <= 1 /\ (run[a].at = "call" => begun[a] = 0)
  /\ ~heard[a] => begun[a] = 0

StopInv == \A a \in Attempts : StopFor(a)

\* What c remembers and d does not: the grants that an attempt with a copy of the lists
\* would write over are known to be missed.
Unseen(c, d) == (c.keys \ d.keys) \cup (c.prefixes \ d.prefixes)

MissedFor(a) ==
  /\ run[a].at \in Gate \ {"gate"} => Unseen(config, run[a].read) \subseteq missed[a]
  /\ run[a].at \in {"remembering", "asking", "clearing"} =>
       Unseen(config, run[a].base) \subseteq missed[a]

MissedInv == \A a \in Attempts : MissedFor(a)

IInv == TypeOK /\ CountInv /\ SaidInv /\ GrantInv /\ BrokerInv /\ StopInv /\ MissedInv

-----------------------------------------------------------------------------
(* What a step does to the attempts.                                       *)

\* The records of attempts, field by field.
LEMMA RunTypes ==
  ASSUME run \in [Attempts -> Runs], NEW a \in Attempts
  PROVE  /\ run[a].at \in Places /\ run[a].end \in {"none", "done", "stopped", "error", "dead"}
         /\ run[a].n \in Nat /\ run[a].cmd \in Commands \cup {None}
         /\ run[a].woken \in BOOLEAN /\ run[a].late \in BOOLEAN /\ run[a].future \in Futures
         /\ run[a].read \in Configs /\ run[a].base \in Configs /\ run[a].q \in Asked \cup {None}
BY DEF Runs

\* The record of an attempt that has not begun.
LEMMA UnusedType == Unused \in Runs
BY DEF Unused, Runs, Places, Futures, NoAnswer, NoConfig, Configs

\* An attempt that moves on.
LEMMA GoesEffect ==
  ASSUME run \in [Attempts -> Runs], NEW a \in Attempts, NEW place \in Places, Goes(a, place)
  PROVE  /\ run' \in [Attempts -> Runs]
         /\ \A b \in Attempts \ {a} : run'[b] = run[b]
         /\ run'[a].at = place /\ run'[a].end = run[a].end /\ run'[a].n = run[a].n
         /\ run'[a].cmd = run[a].cmd /\ run'[a].future = run[a].future /\ run'[a].q = run[a].q
         /\ run'[a].read = run[a].read /\ run'[a].base = run[a].base
BY DEF Goes, Runs

\* An attempt that ends, and forgets all but its command and an answer under way.
LEMMA EndsEffect ==
  ASSUME run \in [Attempts -> Runs], NEW a \in Attempts,
         NEW how \in {"stopped", "error"}, Ends(a, how)
  PROVE  /\ run' \in [Attempts -> Runs]
         /\ \A b \in Attempts \ {a} : run'[b] = run[b]
         /\ run'[a].at = "unwind" /\ run'[a].n = 0 /\ run'[a].cmd = run[a].cmd
         /\ run'[a].read = NoConfig /\ run'[a].base = NoConfig
<1>1. PICK f \in Futures : f = IF run[a].at \in {"announce", "asked"} THEN run[a].future ELSE NoAnswer
  BY RunTypes DEF Futures
<1>2. PICK cmd \in Commands \cup {None} : cmd = run[a].cmd
  BY RunTypes
<1>3. PICK r \in Runs : r = [Unused EXCEPT !.at = "unwind", !.end = how]
  BY UnusedType DEF Runs, Places, Ending
<1>4. r.at = "unwind" /\ r.n = 0 /\ r.read = NoConfig /\ r.base = NoConfig
  BY <1>3, UnusedType DEF Unused, Runs
<1>5. PICK x \in Runs : x = [r EXCEPT !.cmd = cmd, !.future = f]
  BY DEF Runs
<1>6. x.at = "unwind" /\ x.n = 0 /\ x.cmd = cmd /\ x.read = NoConfig /\ x.base = NoConfig
  BY <1>4, <1>5 DEF Runs
<1>7. [Unused EXCEPT !.at = "unwind", !.end = how, !.cmd = cmd, !.future = f] = x
  BY <1>3, <1>5, UnusedType DEF Runs
<1>8. run' = [run EXCEPT ![a] = x]
  BY <1>1, <1>2, <1>7 DEF Ends
<1> QED  BY <1>2, <1>6, <1>8

\* What a plan lets an attempt ask for.
LEMMA PlanTypes ==
  ASSUME AssistantAssumption, plan \in Plans, NEW a \in Attempts
  PROVE  plan[a].menu \subseteq Commands /\ plan[a].calls \in 0 .. MaxCalls
BY DEF AssistantAssumption

\* An attempt that is given a command.
LEMMA PicksEffect ==
  ASSUME AssistantAssumption, plan \in Plans, run \in [Attempts -> Runs],
         said \in [Attempts -> Answers \cup {NoAnswer}], NEW a \in Attempts, Picks(a)
  PROVE  /\ run' \in [Attempts -> Runs]
         /\ \A b \in Attempts \ {a} : run'[b] = run[b] /\ said'[b] = said[b]
         /\ run'[a].at = "chosen" /\ run'[a].n = run[a].n + 1 /\ run'[a].cmd \in Commands
         /\ run'[a].read = NoConfig /\ run'[a].base = NoConfig /\ run'[a].future = NoAnswer
         /\ said' \in [Attempts -> Answers \cup {NoAnswer}] /\ said'[a] = NoAnswer
<1>1. PICK c \in plan[a].menu :
        run' = [run EXCEPT ![a] = [Unused EXCEPT !.at = "chosen", !.n = run[a].n + 1, !.cmd = c]]
  BY DEF Picks
<1>2. c \in Commands
  BY PlanTypes
<1>3. PICK n \in Nat : n = run[a].n + 1
  BY RunTypes
<1>4. PICK r \in Runs : r = [Unused EXCEPT !.at = "chosen", !.n = n, !.cmd = c]
  BY <1>2, UnusedType DEF Runs, Places, Working
<1>5. /\ r.at = "chosen" /\ r.n = n /\ r.cmd = c
      /\ r.read = NoConfig /\ r.base = NoConfig /\ r.future = NoAnswer
  BY <1>4, UnusedType DEF Unused, Runs
<1>6. /\ said' \in [Attempts -> Answers \cup {NoAnswer}] /\ said'[a] = NoAnswer
      /\ \A b \in Attempts \ {a} : said'[b] = said[b]
  BY DEF Picks
<1>7. run' = [run EXCEPT ![a] = r]
  BY <1>1, <1>3, <1>4
<1> QED  BY <1>2, <1>3, <1>5, <1>6, <1>7

\* What a step of attempt a leaves alone of the other attempts.
Acts(a) == Send(a) \/ Step(a) \/ ModelFails(a) \/ SlotFails(a)

Keeps(a) == /\ run' \in [Attempts -> Runs]
            /\ \A b \in Attempts \ {a} : run'[b] = run[b]

\* Steps that change other fields of the record along with the place.
LEMMA RecordEffect ==
  ASSUME run \in [Attempts -> Runs], NEW a \in Attempts, NEW r \in Runs,
         run' = [run EXCEPT ![a] = r]
  PROVE  Keeps(a) /\ run'[a] = r
BY DEF Keeps

\* A stop sets or clears the wake-up of a wait that begins or ends.
LEMMA WokenEffect ==
  ASSUME run \in [Attempts -> Runs], NEW a \in Attempts, NEW place \in Places, NEW woken \in BOOLEAN,
         run' = [run EXCEPT ![a].at = place, ![a].woken = woken]
  PROVE  Keeps(a) /\ run'[a] = [run[a] EXCEPT !.at = place, !.woken = woken]
<1>1. PICK r \in Runs : r = [run[a] EXCEPT !.at = place, !.woken = woken]
  BY RunTypes, ZenonT(30) DEF Runs
<1>2. run' = [run EXCEPT ![a] = r]
  BY <1>1
<1> QED  BY <1>1, <1>2, RecordEffect

\* The allowlists read are kept for the merge.
LEMMA ReadEffect ==
  ASSUME run \in [Attempts -> Runs], NEW a \in Attempts, NEW place \in Places, NEW read \in Configs,
         run' = [run EXCEPT ![a].at = place, ![a].read = read]
  PROVE  Keeps(a) /\ run'[a] = [run[a] EXCEPT !.at = place, !.read = read]
<1>1. PICK r \in Runs : r = [run[a] EXCEPT !.at = place, !.read = read]
  BY RunTypes, ZenonT(30) DEF Runs
<1>2. run' = [run EXCEPT ![a] = r]
  BY <1>1
<1> QED  BY <1>1, <1>2, RecordEffect

\* A wait ends with a decision.
LEMMA FutureEffect ==
  ASSUME run \in [Attempts -> Runs], NEW a \in Attempts, NEW place \in Places, NEW future \in Futures,
         run' = [run EXCEPT ![a].at = place, ![a].future = future]
  PROVE  Keeps(a) /\ run'[a] = [run[a] EXCEPT !.at = place, !.future = future]
<1>1. PICK r \in Runs : r = [run[a] EXCEPT !.at = place, !.future = future]
  BY RunTypes, ZenonT(30) DEF Runs
<1>2. run' = [run EXCEPT ![a] = r]
  BY <1>1
<1> QED  BY <1>1, <1>2, RecordEffect

\* The config is read, to be merged and written.
LEMMA BaseEffect ==
  ASSUME run \in [Attempts -> Runs], NEW a \in Attempts, NEW place \in Places, NEW base \in Configs,
         run' = [run EXCEPT ![a].at = place, ![a].base = base]
  PROVE  Keeps(a) /\ run'[a] = [run[a] EXCEPT !.at = place, !.base = base]
<1>1. PICK r \in Runs : r = [run[a] EXCEPT !.at = place, !.base = base]
  BY RunTypes, ZenonT(30) DEF Runs
<1>2. run' = [run EXCEPT ![a] = r]
  BY <1>1
<1> QED  BY <1>1, <1>2, RecordEffect

\* A question is published, with a future for its answer.
LEMMA AskedEffect ==
  ASSUME run \in [Attempts -> Runs], NEW a \in Attempts, NEW q \in Asked,
         run' = [run EXCEPT ![a] = [run[a] EXCEPT !.at = "asked", !.q = q,
                                                    !.future = NoAnswer, !.late = FALSE]]
  PROVE  Keeps(a) /\ run'[a].at = "asked" /\ run'[a].q = q /\ run'[a].future = NoAnswer
         /\ run'[a].n = run[a].n /\ run'[a].cmd = run[a].cmd
         /\ run'[a].read = run[a].read /\ run'[a].base = run[a].base
<1>1. "asked" \in Places /\ run[a] \in Runs /\ NoAnswer \in Futures
  BY DEF Places, Working, Slot, Question, Futures
<1>2. PICK x \in Runs : x = [run[a] EXCEPT !.at = "asked", !.q = q]
  BY <1>1 DEF Runs
<1>3. /\ x.at = "asked" /\ x.q = q /\ x.n = run[a].n /\ x.cmd = run[a].cmd
      /\ x.read = run[a].read /\ x.base = run[a].base
  BY <1>1, <1>2 DEF Runs
<1>4. PICK r \in Runs : r = [x EXCEPT !.future = NoAnswer, !.late = FALSE]
  BY <1>1 DEF Runs
<1>5. /\ r.at = "asked" /\ r.q = q /\ r.n = run[a].n /\ r.cmd = run[a].cmd
      /\ r.read = run[a].read /\ r.base = run[a].base /\ r.future = NoAnswer
  BY <1>3, <1>4 DEF Runs
<1>6. run' = [run EXCEPT ![a] = r]
  BY <1>2, <1>4
<1> QED  BY <1>5, <1>6, RecordEffect

\* The places that update_session_config goes through.
LEMMA WritingPlaces ==
  /\ DOMAIN Writing = {"remember", "ask", "clear"}
  /\ Writing["remember"] = "remembering" /\ Writing["ask"] = "asking" /\ Writing["clear"] = "clearing"
BY DEF Writing

\* An attempt's step changes its own record.
LEMMA ActStep ==
  ASSUME AssistantAssumption, TypeOK, NEW a \in Attempts, Acts(a)
  PROVE  Keeps(a)
<1>a. run \in [Attempts -> Runs] /\ said \in [Attempts -> Answers \cup {NoAnswer}]
      /\ plan \in Plans /\ config \in Configs /\ stop \in BOOLEAN
  BY DEF TypeOK
<1>1. CASE Send(a)
  BY <1>a, <1>1, GoesEffect DEF Send, Keeps, Places, Working
<1>2. CASE Begin(a)
  BY <1>a, <1>2, GoesEffect, EndsEffect DEF Begin, Keeps, Places, Working
<1>3. CASE Turn(a)
  BY <1>a, <1>3, GoesEffect, EndsEffect DEF Turn, Keeps, Places, Working, Ending
<1>4. CASE Model(a)
  <2>1. CASE run' = [run EXCEPT ![a].at = "finish", ![a].woken = FALSE]
    BY <1>a, <2>1, WokenEffect DEF Places, Ending
  <2>2. CASE Picks(a)
    BY <1>a, <2>2, PicksEffect DEF Keeps
  <2> QED  BY <1>4, <2>1, <2>2 DEF Model
<1>5. CASE ModelStopped(a)
  BY <1>a, <1>5, EndsEffect DEF ModelStopped, Keeps
<1>6. CASE ModelFails(a)
  BY <1>a, <1>6, EndsEffect DEF ModelFails, Keeps
<1>7. CASE Chosen(a)
  BY <1>a, <1>7, GoesEffect, EndsEffect DEF Chosen, Keeps, Places, Working
<1>8. CASE Call(a)
  BY <1>a, <1>8, WokenEffect DEF Call, Places, Working, Slot, Gate
<1>9. CASE After(a)
  <2>1. CASE run' = [run EXCEPT ![a] = [Unused EXCEPT !.at = "turn", !.n = run[a].n]]
    <3>1. [Unused EXCEPT !.at = "turn", !.n = run[a].n] \in Runs
      BY <1>a, UnusedType DEF Runs, Places, Working
    <3> QED  BY <1>a, <2>1, <3>1 DEF Keeps
  <2>2. CASE Picks(a)
    BY <1>a, <2>2, PicksEffect DEF Keeps
  <2> QED  BY <1>9, <2>1, <2>2 DEF After
<1>10. CASE AsksApproval(a)
  <2>1. CASE Goes(a, "run")
    BY <1>a, <2>1, GoesEffect DEF Keeps, Places, Working, Slot
  <2>2. ASSUME NEW mine \in {config, NoConfig},
               run' = [run EXCEPT ![a].at = "announce", ![a].read = [mine EXCEPT !.question = None]]
        PROVE  Keeps(a)
    <3>1. [mine EXCEPT !.question = None] \in Configs
      BY <1>a DEF Configs, NoConfig
    <3> QED  BY <1>a, <2>2, <3>1, ReadEffect DEF Places, Working, Slot, Gate
  <2> QED  BY <1>10, <2>1, <2>2 DEF AsksApproval
<1>11. CASE Announced(a)
  BY <1>a, <1>11, GoesEffect DEF Announced, Keeps, Places, Working, Slot, Gate, Question
<1>12. CASE Expires(a)
  <2>1. run[a] \in Runs
    BY <1>a
  <2>2. [run[a] EXCEPT !.late = TRUE] \in Runs
    BY <2>1 DEF Runs
  <2> QED  BY <1>a, <1>12, <2>2, RecordEffect DEF Expires
<1>13. CASE Decided(a)
  <2>1. Outcome(a) \in Futures
    BY <1>a, RunTypes DEF Outcome, Futures
  <2> QED  BY <1>a, <1>13, <2>1, FutureEffect DEF Decided, Places, Working, Slot, Gate
<1>14. CASE Judges(a)
  BY <1>a, <1>14, GoesEffect DEF Judges, Keeps, Places, Working, Slot, Gate
<1>15. CASE RunsTool(a)
  BY <1>a, <1>15, GoesEffect DEF RunsTool, Keeps, Places, Working, Slot, Question
<1>16. CASE Reads(a)
  <2>1. Writing[run[a].at] \in Places
    BY <1>16, WritingPlaces DEF Reads, Places, Working, Slot, Gate, Question
  <2> QED  BY <1>a, <1>16, <2>1, BaseEffect DEF Reads
<1>17. CASE Writes(a)
  BY <1>a, <1>17, GoesEffect DEF Writes, Keeps, Places, Working, Slot, Gate, Question
<1>18. CASE Publishes(a)
  <2>1. config.question = None \/ config.question \in Asked
    BY <1>a DEF Configs
  <2> QED  BY <1>a, <1>18, <2>1, GoesEffect, AskedEffect, ZenonT(30) DEF Publishes, Keeps, Places, Working
<1>19. CASE IsAnswered(a)
  BY <1>a, <1>19, GoesEffect DEF IsAnswered, Keeps, Places, Working, Slot, Question
<1>20. CASE StopsTool(a)
  BY <1>a, <1>20, EndsEffect DEF StopsTool, Keeps, Leaves
<1>21. CASE SlotFails(a)
  BY <1>a, <1>21, EndsEffect DEF SlotFails, Keeps, Leaves
<1>22. CASE Unwinds(a)
  BY <1>a, <1>22, GoesEffect DEF Unwinds, Keeps, Places, Ending
<1>23. CASE Finishes(a)
  BY <1>a, <1>23, GoesEffect DEF Finishes, Keeps, Places, Ending
<1>24. CASE Completes(a)
  <2>1. run[a] \in Runs /\ "over" \in Places
    BY <1>a DEF Places
  <2>2. [run[a] EXCEPT !.at = "over", !.end = "done"] \in Runs
    BY <2>1 DEF Runs
  <2>3. run' = [run EXCEPT ![a] = [run[a] EXCEPT !.at = "over", !.end = "done"]]
    BY <1>a, <1>24 DEF Completes
  <2> QED  BY <1>a, <2>2, <2>3, RecordEffect
<1> QED  BY <1>1, <1>2, <1>3, <1>4, <1>5, <1>6, <1>7, <1>8, <1>9, <1>10, <1>11, <1>12, <1>13, <1>14, <1>15, <1>16, <1>17, <1>18, <1>19, <1>20, <1>21, <1>22, <1>23, <1>24 DEF Acts, Step

-----------------------------------------------------------------------------
(* The session's config and the rest of the state.                         *)

\* The plan of a behaviour does not change.
LEMMA PlanStays ==
  ASSUME NEW a \in Attempts, Acts(a)
  PROVE  plan' = plan
BY DEF session, broker, ghosts, Acts, Step,
       Send, Begin, Turn, Model, ModelStopped, ModelFails, Chosen, Call, After, AsksApproval,
       Announced, Expires, Decided, Judges, RunsTool, Reads, Writes, Publishes, IsAnswered,
       StopsTool, SlotFails, Unwinds, Finishes, Completes

\* The n-th call of an attempt is a question id.
LEMMA AskedIds ==
  ASSUME NEW a \in Attempts, NEW n \in 1 .. MaxCalls
  PROVE  <<a, n>> \in Asked
BY DEF Asked

\* What is written has the type of a config, holds only what was granted, and drops
\* only what the lists do not show that were read for it.
LEMMA PatchedConfig ==
  ASSUME AssistantAssumption, TypeOK, CountInv, SaidInv, GrantInv, NEW a \in Attempts,
         run[a].at \in {"remembering", "asking", "clearing"}
  PROVE  /\ Patched(a) \in Configs
         /\ Granted(Patched(a))
         /\ \A g \in Memory(config) \ Memory(Patched(a)) :
              \/ g \in Unseen(config, run[a].base)
              \/ run[a].at = "remembering" /\ g \in Unseen(config, run[a].read)
<1>a. /\ run[a].base \in Configs /\ run[a].read \in Configs
      /\ run[a].n \in Nat /\ plan[a].calls \in 0 .. MaxCalls /\ MaxCalls \in Nat
      /\ run[a].cmd \in Commands \cup {None}
  BY RunTypes, PlanTypes, AssistantAssumption DEF TypeOK, AssistantAssumption
<1>b. CountFor(a) /\ SaidFor(a) /\ Granted(run[a].base) /\ Granted(run[a].read)
  BY DEF CountInv, SaidInv, GrantInv
<1>1. CASE run[a].at = "asking"
  <2>1. PICK q \in Asked : q = <<a, run[a].n>>
    <3>1. run[a].n \in 1 .. MaxCalls
      BY <1>a, <1>b, <1>1 DEF CountFor, Slot, Question
    <3> QED  BY <3>1, AskedIds
  <2>2. Patched(a) = [run[a].base EXCEPT !.question = q]
    BY <1>1, <2>1 DEF Patched
  <2> QED  BY <1>a, <1>b, <1>1, <2>2 DEF Configs, Granted, Memory, Unseen
<1>2. CASE run[a].at = "clearing"
  <2>1. Patched(a) = [run[a].base EXCEPT !.question = None]
    BY <1>2 DEF Patched
  <2> QED  BY <1>a, <1>b, <1>2, <2>1 DEF Configs, Granted, Memory, Unseen
<1>3. CASE run[a].at = "remembering"
  <2>1. PICK answer \in Answers : answer = said[a] /\ answer = run[a].future
    BY <1>b, <1>3 DEF SaidFor, TypeOK
  <2>2. /\ answer.action = "approve_always" /\ answer.prefix \in Prefixes \cup {None}
        /\ RuleOf[run[a].cmd] \in Rules /\ RuleOf[run[a].cmd] \notin OneTime
        /\ Given(run[a].cmd, answer) \subseteq granted
    <3>1. RuleOf[run[a].cmd] \in Rules
      BY <1>b, <1>3, AssistantAssumption DEF CountFor, Slot, Gate, AssistantAssumption
    <3>2. answer.prefix \in Prefixes \cup {None}
      BY AssistantAssumption DEF AssistantAssumption
    <3> QED  BY <1>b, <1>3, <2>1, <3>1, <3>2 DEF SaidFor, Gate
  <2>3. CASE answer.prefix = None
    <3>1. Patched(a) = [run[a].base EXCEPT !.keys = run[a].read.keys \cup {RuleOf[run[a].cmd]}]
      BY <1>3, <2>1, <2>3 DEF Patched, Grants
    <3>2. RuleOf[run[a].cmd] \in granted
      BY <2>2, <2>3 DEF Given
    <3> QED  BY <1>a, <1>b, <1>3, <2>2, <3>1, <3>2 DEF Configs, Granted, Memory, Unseen
  <2>4. CASE answer.prefix # None
    <3>1. Patched(a) = [run[a].base EXCEPT !.prefixes = run[a].read.prefixes \cup {answer.prefix}]
      BY <1>3, <2>1, <2>4 DEF Patched, Grants
    <3>2. answer.prefix \in granted
      BY <2>2, <2>4 DEF Given
    <3> QED  BY <1>a, <1>b, <1>3, <2>2, <2>4, <3>1, <3>2 DEF Configs, Granted, Memory, Unseen
  <2> QED  BY <2>3, <2>4
<1> QED  BY <1>1, <1>2, <1>3

\* What Judges writes to config.yaml was granted.
LEMMA PersistedGrant ==
  ASSUME AssistantAssumption, TypeOK, CountInv, SaidInv, NEW a \in Attempts, run[a].at = "decided",
         ~Refused(a)
  PROVE  /\ run[a].future = said[a] /\ said[a] \in Answers
         /\ Approves(said[a])
         /\ RuleOf[run[a].cmd] \in OneTime => said[a].action = "approve_once"
         /\ said[a].action = "approve_persist" => said[a].prefix \in granted \cap Prefixes
<1>a. CountFor(a) /\ SaidFor(a)
  BY DEF CountInv, SaidInv
<1>1. run[a].future # Timeout
  BY DEF Refused, Timeout
<1>2. PICK answer \in Answers : answer = said[a] /\ answer = run[a].future
  BY <1>a, <1>1 DEF SaidFor, TypeOK
<1>3. /\ answer.action \in Actions /\ answer.prefix \in Prefixes \cup {None}
      /\ answer.action = "approve_persist" => answer.prefix # None
  BY AssistantAssumption DEF AssistantAssumption
<1>4. /\ answer.action \notin {"timeout", "reject"}
      /\ answer.action \in {"approve_always", "approve_persist"} => RuleOf[run[a].cmd] \notin OneTime
  BY <1>2 DEF Refused
<1>5. said[a] # NoAnswer /\ answer.action \in {"approve_once", "approve_always", "approve_persist"}
  BY <1>2, <1>3, <1>4 DEF Actions, NoAnswer
<1>6. answer.action = "approve_persist" => answer.prefix \in granted
  BY <1>a, <1>2, <1>3, <1>4, <1>5 DEF SaidFor, Gate, Given
<1> QED  BY <1>2, <1>3, <1>4, <1>5, <1>6 DEF Approves

\* The types of all but the attempts.
RestOK ==
  /\ plan \in Plans /\ config \in Configs /\ status \in {"idle", "running", "error"}
  /\ persist \subseteq Prefixes
  /\ stop \in BOOLEAN
  /\ pending \subseteq Attempts
  /\ holder \in [Asked -> Attempts \cup {None}]
  /\ said \in [Attempts -> Answers \cup {NoAnswer}]
  /\ granted \subseteq Rules \cup Prefixes
  /\ heard \in [Attempts -> BOOLEAN]
  /\ begun \in [Attempts -> Nat]
  /\ missed \in [Attempts -> SUBSET (Rules \cup Prefixes)] /\ leaked \subseteq Attempts
  /\ faults \in Nat

\* An attempt's step keeps the types.
LEMMA TypeStep ==
  ASSUME AssistantAssumption, TypeOK, CountInv, SaidInv, GrantInv, NEW a \in Attempts, Acts(a)
  PROVE  TypeOK'
<1>a. RestOK
  BY DEF TypeOK, RestOK
<1>b. run[a].at \in {"asked", "answer"} => run[a].q \in Asked
  BY DEF CountInv, CountFor
<1> USE DEF session, broker, ghosts
<1>1. ASSUME Send(a) PROVE RestOK'
  BY <1>a, <1>1 DEF Send, RestOK, ClearStop
<1>2. ASSUME Begin(a) PROVE RestOK'
  BY <1>a, <1>2 DEF Begin, RestOK
<1>3. ASSUME Turn(a) PROVE RestOK'
  <2>1. begun' \in [Attempts -> Nat]
    BY <1>a, <1>3 DEF Turn, RestOK, Begins
  <2> QED  BY <1>a, <1>3, <2>1 DEF Turn, RestOK
<1>4. ASSUME Model(a) PROVE RestOK'
  BY <1>a, <1>4 DEF Model, RestOK, Picks
<1>5. ASSUME ModelStopped(a) PROVE RestOK'
  BY <1>a, <1>5 DEF ModelStopped, RestOK
<1>6. ASSUME ModelFails(a) PROVE RestOK'
  BY <1>a, <1>6 DEF ModelFails, RestOK, Fault
<1>7. ASSUME Chosen(a) PROVE RestOK'
  BY <1>a, <1>7 DEF Chosen, RestOK
<1>8. ASSUME Call(a) PROVE RestOK'
  BY <1>a, <1>8 DEF Call, RestOK, Begins
<1>9. ASSUME After(a) PROVE RestOK'
  BY <1>a, <1>9 DEF After, RestOK, Picks
<1>10. ASSUME AsksApproval(a) PROVE RestOK'
  <2>1. PICK mine \in {config, NoConfig} : missed' = [missed EXCEPT ![a] = Memory(config) \ Memory(mine)]
    BY <1>10 DEF AsksApproval
  <2>2. Memory(config) \subseteq Rules \cup Prefixes
    BY <1>a DEF RestOK, Configs, Memory
  <2>3. missed' \in [Attempts -> SUBSET (Rules \cup Prefixes)]
    BY <1>a, <2>1, <2>2 DEF RestOK
  <2> QED  BY <1>a, <1>10, <2>3 DEF AsksApproval, RestOK, Fault
<1>11. ASSUME Announced(a) PROVE RestOK'
  BY <1>a, <1>11 DEF Announced, RestOK
<1>12. ASSUME Expires(a) PROVE RestOK'
  BY <1>a, <1>12 DEF Expires, RestOK
<1>13. ASSUME Decided(a) PROVE RestOK'
  BY <1>a, <1>13 DEF Decided, RestOK
<1>14. ASSUME Judges(a) PROVE RestOK'
  <2>1. persist' \subseteq Prefixes
    BY <1>a, <1>14, PersistedGrant DEF Judges, RestOK
  <2> QED  BY <1>a, <1>14, <2>1 DEF Judges, RestOK, Fault
<1>15. ASSUME RunsTool(a) PROVE RestOK'
  BY <1>a, <1>15 DEF RunsTool, RestOK
<1>16. ASSUME Reads(a) PROVE RestOK'
  BY <1>a, <1>16 DEF Reads, RestOK
<1>17. ASSUME Writes(a) PROVE RestOK'
  <2>1. Patched(a) \in Configs
    BY <1>17, PatchedConfig DEF Writes
  <2>2. config' \in Configs
    BY <1>a, <1>17, <2>1 DEF Writes, RestOK
  <2>3. Memory(config') \subseteq Rules \cup Prefixes
    BY <2>2 DEF Configs, Memory
  <2>4. missed' \in [Attempts -> SUBSET (Rules \cup Prefixes)]
    BY <1>a, <1>17, <2>3 DEF Writes, RestOK
  <2> QED  BY <1>a, <1>17, <2>2, <2>4 DEF Writes, RestOK, Fault
<1>18. ASSUME Publishes(a) PROVE RestOK'
  <2>1. config.question \in Asked \cup {None}
    BY <1>a DEF RestOK, Configs
  <2> QED  BY <1>a, <1>18, <2>1 DEF Publishes, RestOK
<1>19. ASSUME IsAnswered(a) PROVE RestOK'
  BY <1>a, <1>b, <1>19 DEF IsAnswered, RestOK
<1>20. ASSUME StopsTool(a) PROVE RestOK'
  BY <1>a, <1>b, <1>20 DEF StopsTool, RestOK, Leaves
<1>21. ASSUME SlotFails(a) PROVE RestOK'
  BY <1>a, <1>b, <1>21 DEF SlotFails, RestOK, Leaves, Fault
<1>22. ASSUME Unwinds(a) PROVE RestOK'
  BY <1>a, <1>22 DEF Unwinds, RestOK
<1>23. ASSUME Finishes(a) PROVE RestOK'
  BY <1>a, <1>23 DEF Finishes, RestOK, ClearStop
<1>24. ASSUME Completes(a) PROVE RestOK'
  BY <1>a, <1>24 DEF Completes, RestOK
<1> QED  BY ActStep, <1>1, <1>2, <1>3, <1>4, <1>5, <1>6, <1>7, <1>8, <1>9, <1>10, <1>11, <1>12, <1>13, <1>14, <1>15, <1>16, <1>17, <1>18, <1>19, <1>20, <1>21, <1>22, <1>23, <1>24 DEF Acts, Step, Keeps, TypeOK, RestOK

-----------------------------------------------------------------------------
(* What an attempt's record and the decisions say of it.                   *)

\* An attempt that goes on with the same call, and one that is over its calls.
Moved(a, places) ==
  /\ run'[a].at \in places /\ run'[a].n = run[a].n /\ run'[a].cmd = run[a].cmd
  /\ run'[a].q = run[a].q /\ said'[a] = said[a] /\ granted' = granted

Ended(a) == run'[a].at \in Ending \cup {"over", "begin", "turn"} /\ run'[a].n \in {0, run[a].n}

\* An attempt that is at its next call.
Picked(a) ==
  /\ run'[a].at = "chosen" /\ run'[a].n = run[a].n + 1 /\ run[a].n < plan[a].calls
  /\ run'[a].cmd \in Commands /\ run'[a].future = NoAnswer /\ said'[a] = NoAnswer

\* An attempt's step keeps what its record and the decisions say of it.
LEMMA LocalStep ==
  ASSUME AssistantAssumption, TypeOK, CountInv, SaidInv, GrantInv, NEW a \in Attempts, Acts(a)
  PROVE  CountFor(a)' /\ SaidFor(a)' /\ ConsentFor(a)'
<1>a. /\ run \in [Attempts -> Runs] /\ said \in [Attempts -> Answers \cup {NoAnswer}]
      /\ plan \in Plans /\ config \in Configs /\ stop \in BOOLEAN
  BY DEF TypeOK
<1>b. CountFor(a) /\ SaidFor(a) /\ ConsentFor(a)
  BY DEF CountInv, SaidInv
<1>c. plan[a].calls \in Nat /\ run[a].n \in Nat /\ plan' = plan
  BY <1>a, RunTypes, PlanTypes, PlanStays, AssistantAssumption DEF TypeOK, AssistantAssumption
<1> USE DEF session, broker, ghosts
<1>e. ASSUME Ended(a) PROVE CountFor(a)' /\ SaidFor(a)' /\ ConsentFor(a)'
  BY <1>b, <1>c, <1>e DEF Ended, Ending, CountFor, SaidFor, ConsentFor, Slot, Gate, Question
<1>p. ASSUME Picked(a) PROVE CountFor(a)' /\ SaidFor(a)' /\ ConsentFor(a)'
  BY <1>b, <1>c, <1>p DEF Picked, CountFor, SaidFor, ConsentFor, Slot, Gate, Question
\* A move within the tool call that no decision hangs on.
<1>m. ASSUME run[a].at \in {"chosen", "call", "after"} \cup Slot,
             Moved(a, {"after", "ask", "asking", "publish", "answer", "clear", "clearing"}),
             run'[a].at = "answer" => run[a].at \in {"asked", "answer"}
      PROVE  CountFor(a)' /\ SaidFor(a)' /\ ConsentFor(a)'
  BY <1>b, <1>c, <1>m DEF Moved, CountFor, SaidFor, ConsentFor, Slot, Gate, Question
\* A move of a gated call that keeps the decision heard so far.
<1>g. ASSUME Moved(a, {"wait", "decided"}), (run[a].at = "announce" /\ run'[a].at = "wait") \/ run'[a].at = run[a].at,
             run'[a].future = run[a].future
      PROVE  CountFor(a)' /\ SaidFor(a)' /\ ConsentFor(a)'
  BY <1>b, <1>c, <1>g DEF Moved, CountFor, SaidFor, ConsentFor, Slot, Gate, Question
<1>1. CASE Send(a)
  <2>1. Ended(a)
    BY <1>a, <1>1, GoesEffect DEF Send, Ended, Places, Working
  <2> QED  BY <1>e, <2>1
<1>2. CASE Begin(a)
  <2>1. Ended(a)
    BY <1>a, <1>2, GoesEffect, EndsEffect DEF Begin, Ended, Places, Working, Ending
  <2> QED  BY <1>e, <2>1
<1>3. CASE Turn(a)
  <2>1. CASE Ended(a)
    BY <1>e, <2>1
  <2>2. CASE run[a].n < plan[a].calls /\ Goes(a, "model")
    <3>1. run'[a].at = "model" /\ run'[a].n = run[a].n
      BY <1>a, <2>2, GoesEffect DEF Places, Working
    <3> QED  BY <1>b, <1>c, <2>2, <3>1 DEF CountFor, SaidFor, ConsentFor, Slot, Gate, Question
  <2> QED  BY <1>a, <1>3, <2>1, <2>2, GoesEffect, EndsEffect DEF Turn, Ended, Places, Ending
<1>4. CASE Model(a)
  <2>1. CASE run' = [run EXCEPT ![a].at = "finish", ![a].woken = FALSE]
    <3>1. run'[a] = [run[a] EXCEPT !.at = "finish", !.woken = FALSE]
      BY <1>a, <2>1, WokenEffect DEF Places, Ending
    <3>2. run'[a].at = "finish" /\ run'[a].n = run[a].n
      BY <1>a, <3>1 DEF Runs
    <3> QED  BY <1>e, <3>2 DEF Ended, Ending
  <2>2. CASE Picks(a)
    <3>1. Picked(a)
      BY <1>a, <1>b, <1>4, <2>2, PicksEffect DEF Picked, Model, CountFor
    <3> QED  BY <1>p, <3>1
  <2> QED  BY <1>4, <2>1, <2>2 DEF Model
<1>5. CASE ModelStopped(a)
  <2>1. Ended(a)
    BY <1>a, <1>5, EndsEffect DEF ModelStopped, Ended, Ending
  <2> QED  BY <1>e, <2>1
<1>6. CASE ModelFails(a)
  <2>1. Ended(a)
    BY <1>a, <1>6, EndsEffect DEF ModelFails, Ended, Ending
  <2> QED  BY <1>e, <2>1
<1>7. CASE Chosen(a)
  <2>1. CASE stop
    <3>1. Ended(a)
      BY <1>a, <1>7, <2>1, EndsEffect DEF Chosen, Ended, Ending
    <3> QED  BY <1>e, <3>1
  <2>2. CASE ~stop
    <3>1. Moved(a, {"call"}) /\ run'[a].future = run[a].future
      BY <1>a, <1>7, <2>2, GoesEffect DEF Chosen, Moved, Places, Working
    <3> QED  BY <1>b, <1>7, <3>1 DEF Chosen, Moved, CountFor, SaidFor, ConsentFor, Slot, Gate, Question
  <2> QED  BY <2>1, <2>2
<1>8. CASE Call(a)
  <2>1. PICK place \in {"run", "gate"} : /\ place = IF RuleOf[run[a].cmd] = None THEN "run" ELSE "gate"
                                        /\ run' = [run EXCEPT ![a].at = place, ![a].woken = stop]
    BY <1>8 DEF Call
  <2>2. run'[a] = [run[a] EXCEPT !.at = place, !.woken = stop]
    BY <1>a, <2>1, WokenEffect DEF Places, Working, Slot, Gate
  <2>3. Moved(a, {place}) /\ run'[a].at = place /\ run'[a].future = run[a].future
    <3>1. /\ run'[a].n = run[a].n /\ run'[a].cmd = run[a].cmd /\ run'[a].q = run[a].q
          /\ run'[a].at = place /\ run'[a].future = run[a].future
      BY <1>a, <2>2 DEF Runs
    <3> QED  BY <1>8, <3>1 DEF Call, Moved
  <2> QED  BY <1>b, <1>8, <2>1, <2>3 DEF Call, Moved, CountFor, SaidFor, ConsentFor, Slot, Gate, Question
<1>9. CASE After(a)
  <2>1. CASE run' = [run EXCEPT ![a] = [Unused EXCEPT !.at = "turn", !.n = run[a].n]]
    <3>1. run'[a].at = "turn" /\ run'[a].n = run[a].n
      BY <1>a, <2>1, UnusedType DEF Runs
    <3> QED  BY <1>e, <3>1 DEF Ended
  <2>2. CASE run[a].n < plan[a].calls /\ Picks(a)
    <3>1. Picked(a)
      BY <1>a, <2>2, PicksEffect DEF Picked
    <3> QED  BY <1>p, <3>1
  <2> QED  BY <1>9, <2>1, <2>2 DEF After
<1>10. CASE AsksApproval(a)
  <2>1. PICK mine \in {config, NoConfig}, all \in {persist, {}} :
          IF IsAutoApproved(a, mine.keys, mine.prefixes \cup all)
          THEN Goes(a, "run")
          ELSE run' = [run EXCEPT ![a].at = "announce", ![a].read = [mine EXCEPT !.question = None]]
    BY <1>10 DEF AsksApproval
  <2>2. /\ run[a].at = "gate" /\ said'[a] = said[a] /\ granted' = granted
        /\ said[a] = NoAnswer /\ run[a].future = NoAnswer
    BY <1>b, <1>10 DEF AsksApproval, SaidFor
  <2>3. CASE IsAutoApproved(a, mine.keys, mine.prefixes \cup all)
    <3>1. Moved(a, {"run"})
      BY <1>a, <2>1, <2>2, <2>3, GoesEffect DEF Moved, Places, Working, Slot
    <3>2. /\ mine.keys \subseteq granted /\ mine.prefixes \subseteq granted \cap Prefixes
          /\ all \subseteq granted \cap Prefixes
      BY <1>a DEF GrantInv, Granted, NoConfig, Configs, TypeOK
    <3>3. /\ RuleOf[run[a].cmd] \notin OneTime
          /\ Remembers(RuleOf[run[a].cmd], run[a].cmd, granted, granted \cap Prefixes)
      BY <2>3, <3>2 DEF IsAutoApproved, Remembers
    <3> QED  BY <1>b, <1>c, <2>2, <3>1, <3>3
             DEF Moved, CountFor, SaidFor, ConsentFor, Slot, Gate, Question, Remembers
  <2>4. CASE ~IsAutoApproved(a, mine.keys, mine.prefixes \cup all)
    <3>1. [mine EXCEPT !.question = None] \in Configs
      BY <1>a DEF Configs, NoConfig
    <3>2. run'[a] = [run[a] EXCEPT !.at = "announce", !.read = [mine EXCEPT !.question = None]]
      BY <1>a, <2>1, <2>4, <3>1, ReadEffect DEF Places, Working, Slot, Gate
    <3>3. Moved(a, {"announce"}) /\ run'[a].future = run[a].future
      BY <1>a, <2>2, <3>2 DEF Moved, Runs
    <3> QED  BY <1>b, <1>c, <2>2, <3>3 DEF Moved, CountFor, SaidFor, ConsentFor, Slot, Gate, Question
  <2> QED  BY <2>3, <2>4
<1>11. CASE Announced(a)
  <2>1. CASE run[a].at = "announce" /\ Goes(a, "wait")
    <3>1. Moved(a, {"wait"}) /\ run'[a].future = run[a].future
      BY <1>a, <1>11, <2>1, GoesEffect DEF Announced, Moved, Places, Working, Slot, Gate
    <3> QED  BY <1>g, <2>1, <3>1 DEF Moved
  <2>2. CASE run[a].at = "asked" /\ Goes(a, "answer")
    <3>1. Moved(a, {"answer"})
      BY <1>a, <1>11, <2>2, GoesEffect DEF Announced, Moved, Places, Working, Slot, Question
    <3> QED  BY <1>m, <2>2, <3>1 DEF Moved, Slot, Question
  <2> QED  BY <1>11, <2>1, <2>2 DEF Announced
<1>12. CASE Expires(a)
  <2>1. run[a] \in Runs
    BY <1>a
  <2>2. run'[a] = [run[a] EXCEPT !.late = TRUE]
    BY <1>a, <1>12 DEF Expires
  <2>3. Moved(a, {run[a].at}) /\ run'[a].future = run[a].future
    BY <1>a, <1>12, <2>1, <2>2 DEF Expires, Moved, Runs
  <2>4. CASE run[a].at = "wait"
    BY <1>g, <2>3, <2>4 DEF Moved
  <2>5. CASE run[a].at = "answer"
    BY <1>m, <2>3, <2>5 DEF Moved, Slot, Question
  <2> QED  BY <1>12, <2>4, <2>5 DEF Expires
<1>13. CASE Decided(a)
  <2>1. Outcome(a) \in Futures
    BY <1>a, RunTypes DEF Outcome, Futures
  <2>2. run'[a] = [run[a] EXCEPT !.at = "decided", !.future = Outcome(a)]
    BY <1>a, <1>13, <2>1, FutureEffect DEF Decided, Places, Working, Slot, Gate
  <2>3. Moved(a, {"decided"}) /\ run'[a].future = Outcome(a) /\ run[a].at = "wait"
    BY <1>a, <1>13, <2>2 DEF Decided, Moved, Runs
  <2> QED  BY <1>b, <1>c, <2>3 DEF Moved, Outcome, CountFor, SaidFor, ConsentFor, Slot, Gate, Question
<1>14. CASE Judges(a)
  <2>1. CASE Refused(a)
    <3>1. Moved(a, {"after"}) /\ run[a].at = "decided"
      BY <1>a, <1>14, <2>1, GoesEffect DEF Judges, Moved, Places, Working
    <3> QED  BY <1>m, <3>1 DEF Moved, Slot, Gate
  <2>2. CASE ~Refused(a)
    <3>1. /\ run[a].at = "decided" /\ Moved(a, {"run", "remember"})
          /\ run'[a].future = run[a].future
          /\ run'[a].at = "remember" => run[a].future.action = "approve_always"
      BY <1>a, <1>14, <2>2, GoesEffect DEF Judges, Moved, Places, Working, Slot, Gate
    <3>2. /\ run[a].future = said[a] /\ said[a] \in Answers /\ Approves(said[a])
          /\ RuleOf[run[a].cmd] \in OneTime => said[a].action = "approve_once"
      BY <2>2, <3>1, PersistedGrant
    <3>3. said[a] # NoAnswer
      BY <3>2 DEF Approves, NoAnswer
    <3> QED  BY <1>b, <1>c, <3>1, <3>2, <3>3
             DEF Moved, CountFor, SaidFor, ConsentFor, Approves, Slot, Gate, Question
  <2> QED  BY <2>1, <2>2
<1>15. CASE RunsTool(a)
  <2>1. Moved(a, {"ask", "after"}) /\ run[a].at = "run"
    BY <1>a, <1>15, GoesEffect DEF RunsTool, Moved, Places, Working, Slot, Question
  <2> QED  BY <1>m, <2>1 DEF Moved, Slot
<1>16. CASE Reads(a)
  <2>1. Writing[run[a].at] \in Places
    BY <1>16, WritingPlaces DEF Reads, Places, Working, Slot, Gate, Question
  <2>2. run'[a] = [run[a] EXCEPT !.at = Writing[run[a].at], !.base = config]
    BY <1>a, <1>16, <2>1, BaseEffect DEF Reads
  <2>3. Moved(a, {Writing[run[a].at]}) /\ run'[a].future = run[a].future
    BY <1>a, <1>16, <2>2 DEF Reads, Moved, Runs
  <2>4. CASE run[a].at = "remember"
    <3>1. Moved(a, {"remembering"})
      BY <2>3, <2>4, WritingPlaces
    <3> QED  BY <1>b, <1>c, <2>3, <2>4, <3>1
             DEF Moved, CountFor, SaidFor, ConsentFor, Slot, Gate, Question
  <2>5. CASE run[a].at \in {"ask", "clear"}
    <3>1. Moved(a, {"asking", "clearing"})
      BY <2>3, <2>5, WritingPlaces DEF Moved
    <3> QED  BY <1>m, <2>5, <3>1 DEF Moved, Slot, Question
  <2> QED  BY <1>16, <2>4, <2>5, WritingPlaces DEF Reads
<1>17. CASE Writes(a)
  <2>1. Moved(a, {"run", "publish", "after"}) /\ (run'[a].at = "run" <=> run[a].at = "remembering")
        /\ run[a].at \in {"remembering", "asking", "clearing"}
    BY <1>a, <1>17, GoesEffect DEF Writes, Moved, Places, Working, Slot, Question
  <2>2. CASE run[a].at = "remembering"
    BY <1>b, <1>c, <2>1, <2>2 DEF Moved, CountFor, SaidFor, ConsentFor, Approves, Slot, Gate, Question
  <2>3. CASE run[a].at # "remembering"
    BY <1>m, <2>1, <2>3 DEF Moved, Slot, Gate, Question
  <2> QED  BY <2>2, <2>3
<1>18. CASE Publishes(a)
  <2>1. CASE config.question = None
    <3>1. Moved(a, {"after"})
      BY <1>a, <1>18, <2>1, GoesEffect DEF Publishes, Moved, Places, Working
    <3> QED  BY <1>m, <1>18, <3>1 DEF Publishes, Moved, Slot, Question
  <2>2. CASE config.question # None
    <3>1. config.question \in Asked
      BY <1>a, <2>2 DEF Configs
    <3>2. /\ run'[a].at = "asked" /\ run'[a].q = config.question
          /\ run'[a].n = run[a].n /\ run'[a].cmd = run[a].cmd /\ config' = config
      BY <1>a, <1>18, <2>2, <3>1, AskedEffect DEF Publishes
    <3> QED  BY <1>b, <1>18, <3>1, <3>2
             DEF Publishes, CountFor, SaidFor, ConsentFor, Slot, Gate, Question
  <2> QED  BY <2>1, <2>2
<1>19. CASE IsAnswered(a)
  <2>1. Moved(a, {"clear"}) /\ run[a].at = "answer"
    BY <1>a, <1>19, GoesEffect DEF IsAnswered, Moved, Places, Working, Slot, Question
  <2> QED  BY <1>m, <2>1 DEF Moved, Slot, Question
<1>20. CASE StopsTool(a)
  <2>1. Ended(a)
    BY <1>a, <1>20, EndsEffect DEF StopsTool, Ended, Ending
  <2> QED  BY <1>e, <2>1
<1>21. CASE SlotFails(a)
  <2>1. Ended(a)
    BY <1>a, <1>21, EndsEffect DEF SlotFails, Ended, Ending
  <2> QED  BY <1>e, <2>1
<1>22. CASE Unwinds(a)
  <2>1. Ended(a)
    BY <1>a, <1>22, GoesEffect DEF Unwinds, Ended, Places, Ending
  <2> QED  BY <1>e, <2>1
<1>23. CASE Finishes(a)
  <2>1. Ended(a)
    BY <1>a, <1>23, GoesEffect DEF Finishes, Ended, Places, Ending
  <2> QED  BY <1>e, <2>1
<1>24. CASE Completes(a)
  <2>1. run[a] \in Runs /\ run'[a] = [run[a] EXCEPT !.at = "over", !.end = "done"]
    BY <1>a, <1>24 DEF Completes
  <2>2. Ended(a)
    BY <2>1 DEF Ended, Runs
  <2> QED  BY <1>e, <2>2
<1> QED  BY <1>1, <1>2, <1>3, <1>4, <1>5, <1>6, <1>7, <1>8, <1>9, <1>10, <1>11, <1>12, <1>13, <1>14, <1>15, <1>16, <1>17, <1>18, <1>19, <1>20, <1>21, <1>22, <1>23, <1>24 DEF Acts, Step

-----------------------------------------------------------------------------
(* Where an attempt goes, and what it takes along.                         *)

Onward(at) ==
  CASE at = "unused"   -> {"begin"}
    [] at = "begin"    -> {"turn", "unwind"}
    [] at = "turn"     -> {"model", "finish", "unwind"}
    [] at = "model"    -> {"chosen", "finish", "unwind"}
    [] at = "chosen"   -> {"call", "unwind"}
    [] at = "call"     -> {"run", "gate"}
    [] at = "gate"     -> {"announce", "run", "unwind"}
    [] at = "announce" -> {"wait", "unwind"}
    [] at = "wait"     -> {"wait", "decided", "unwind"}
    [] at = "decided"  -> {"run", "remember", "after", "unwind"}
    [] at = "remember" -> {"remembering", "unwind"}
    [] at = "remembering" -> {"run", "unwind"}
    [] at = "run"      -> {"ask", "after", "unwind"}
    [] at = "ask"      -> {"asking", "unwind"}
    [] at = "asking"   -> {"publish", "after", "unwind"}
    [] at = "publish"  -> {"asked", "after", "unwind"}
    [] at = "asked"    -> {"answer", "unwind"}
    [] at = "answer"   -> {"answer", "clear", "unwind"}
    [] at = "clear"    -> {"clearing", "unwind"}
    [] at = "clearing" -> {"after", "unwind"}
    [] at = "after"    -> {"turn", "chosen"}
    [] at = "unwind"   -> {"finish"}
    [] at = "finish"   -> {"complete", "over"}
    [] OTHER -> {"over"}

\* The config is being read and written.
Updating == {"remembering", "asking", "clearing"}

GoesOn(a) ==
  /\ run'[a].at \in Onward(run[a].at)
  /\ run'[a].at \in Slot \cup Ending \cup {"over"} => run'[a].cmd = run[a].cmd
  /\ run'[a].at = "answer" => run'[a].q = run[a].q
  /\ \/ run'[a].read \in {run[a].read, NoConfig}
     \/ run'[a].at = "announce" /\ Granted(run'[a].read)
  /\ run'[a].at \in Gate \ {"gate", "announce"} => run'[a].read = run[a].read
  /\ run'[a].at = "announce" => Unseen(config, run'[a].read) \subseteq missed'[a]
  /\ run'[a].base \in {run[a].base, NoConfig, config}
  /\ run'[a].at \in Updating => run'[a].base = config

\* Where a step takes an attempt, and what its record keeps.
LEMMA OnwardStep ==
  ASSUME AssistantAssumption, TypeOK, GrantInv, NEW a \in Attempts, Acts(a)
  PROVE  GoesOn(a)
<1>a. /\ run \in [Attempts -> Runs] /\ said \in [Attempts -> Answers \cup {NoAnswer}]
      /\ plan \in Plans /\ config \in Configs /\ stop \in BOOLEAN /\ faults \in Nat
  BY DEF TypeOK
<1>b. run[a] \in Runs
  BY <1>a
<1>g. ASSUME NEW place \in Onward(run[a].at) \ (Updating \cup {"announce"}), place \in Places, Goes(a, place)
      PROVE  GoesOn(a)
  BY <1>a, <1>g, GoesEffect DEF GoesOn
<1>e. ASSUME NEW how \in {"stopped", "error"}, Ends(a, how), "unwind" \in Onward(run[a].at)
      PROVE  GoesOn(a)
  BY <1>a, <1>e, EndsEffect DEF GoesOn, Slot, Gate, Question, Updating
<1>p. ASSUME Picks(a), "chosen" \in Onward(run[a].at)
      PROVE  GoesOn(a)
  BY <1>a, <1>p, PicksEffect DEF GoesOn, Slot, Gate, Question, Updating, Ending
<1>1. CASE Send(a)
  BY <1>1, <1>g DEF Send, Onward, Updating, Places, Working
<1>2. CASE Begin(a)
  BY <1>2, <1>g, <1>e DEF Begin, Onward, Updating, Places, Working
<1>3. CASE Turn(a)
  BY <1>3, <1>g, <1>e DEF Turn, Onward, Updating, Places, Working, Ending
<1>4. CASE Model(a)
  <2>1. CASE run' = [run EXCEPT ![a].at = "finish", ![a].woken = FALSE]
    <3>1. run'[a] = [run[a] EXCEPT !.at = "finish", !.woken = FALSE]
      BY <1>a, <2>1, WokenEffect DEF Places, Ending
    <3>2. /\ run'[a].at = "finish" /\ run'[a].cmd = run[a].cmd
          /\ run'[a].read = run[a].read /\ run'[a].base = run[a].base
      BY <1>b, <3>1 DEF Runs
    <3> QED  BY <1>4, <3>2 DEF Model, GoesOn, Onward, Updating, Gate
  <2> QED  BY <1>4, <1>p, <2>1 DEF Model, Onward
<1>5. CASE ModelStopped(a)
  BY <1>5, <1>e DEF ModelStopped, Onward
<1>6. CASE ModelFails(a)
  BY <1>6, <1>e DEF ModelFails, Onward
<1>7. CASE Chosen(a)
  BY <1>7, <1>g, <1>e DEF Chosen, Onward, Updating, Places, Working
<1>8. CASE Call(a)
  <2>1. PICK place \in {"run", "gate"} : run' = [run EXCEPT ![a].at = place, ![a].woken = stop]
    BY <1>8 DEF Call
  <2>2. run'[a] = [run[a] EXCEPT !.at = place, !.woken = stop]
    BY <1>a, <2>1, WokenEffect DEF Places, Working, Slot, Gate
  <2>3. /\ run'[a].at = place /\ run'[a].cmd = run[a].cmd
        /\ run'[a].read = run[a].read /\ run'[a].base = run[a].base
    BY <1>b, <2>2 DEF Runs
  <2> QED  BY <1>8, <2>3 DEF Call, GoesOn, Onward, Updating
<1>9. CASE After(a)
  <2>1. CASE run' = [run EXCEPT ![a] = [Unused EXCEPT !.at = "turn", !.n = run[a].n]]
    <3>1. run'[a] = [Unused EXCEPT !.at = "turn", !.n = run[a].n]
      BY <1>a, <2>1
    <3>2. run'[a].at = "turn" /\ run'[a].read = NoConfig /\ run'[a].base = NoConfig
      BY <1>b, <3>1, UnusedType DEF Runs, Unused
    <3> QED  BY <1>9, <3>2 DEF After, GoesOn, Onward, Updating, Slot, Gate, Question, Ending
  <2> QED  BY <1>9, <1>p, <2>1 DEF After, Onward
<1>10. CASE AsksApproval(a)
  <2>1. CASE Goes(a, "run")
    BY <1>10, <1>g, <2>1 DEF AsksApproval, Onward, Updating, Places, Working, Slot
  <2>2. ASSUME NEW mine \in {config, NoConfig}, missed'[a] = Memory(config) \ Memory(mine),
               run' = [run EXCEPT ![a].at = "announce", ![a].read = [mine EXCEPT !.question = None]]
        PROVE  GoesOn(a)
    <3>0. mine \in Configs
      BY <1>a DEF Configs, NoConfig
    <3>1. PICK read \in Configs : read = [mine EXCEPT !.question = None]
      BY <3>0 DEF Configs
    <3>2. run'[a] = [run[a] EXCEPT !.at = "announce", !.read = read]
      BY <1>a, <2>2, <3>1, ReadEffect DEF Places, Working, Slot, Gate
    <3>3. /\ run'[a].at = "announce" /\ run'[a].cmd = run[a].cmd
          /\ run'[a].read = read /\ run'[a].base = run[a].base
      BY <1>b, <3>2 DEF Runs
    <3>4. read.keys = mine.keys /\ read.prefixes = mine.prefixes
      BY <3>0, <3>1 DEF Configs
    <3>5. Granted(mine)
      BY DEF GrantInv, Granted, NoConfig
    <3>6. Unseen(config, read) \subseteq missed'[a]
      BY <2>2, <3>4 DEF Unseen, Memory, NoConfig
    <3> QED  BY <1>10, <3>3, <3>4, <3>5, <3>6
             DEF AsksApproval, GoesOn, Granted, Onward, Updating
  <2>3. \/ Goes(a, "run")
        \/ \E mine \in {config, NoConfig} :
             /\ missed'[a] = Memory(config) \ Memory(mine)
             /\ run' = [run EXCEPT ![a].at = "announce", ![a].read = [mine EXCEPT !.question = None]]
    BY <1>10 DEF AsksApproval, TypeOK
  <2> QED  BY <2>1, <2>2, <2>3
<1>11. CASE Announced(a)
  BY <1>11, <1>g DEF Announced, Onward, Updating, Places, Working, Slot, Gate, Question
<1>12. CASE Expires(a)
  <2>1. run'[a] = [run[a] EXCEPT !.late = TRUE]
    BY <1>a, <1>12 DEF Expires
  <2>2. /\ run'[a].at = run[a].at /\ run'[a].cmd = run[a].cmd /\ run'[a].q = run[a].q
        /\ run'[a].read = run[a].read /\ run'[a].base = run[a].base
    BY <1>b, <2>1 DEF Runs
  <2> QED  BY <1>12, <2>2 DEF Expires, GoesOn, Onward, Updating
<1>13. CASE Decided(a)
  <2>1. Outcome(a) \in Futures
    BY <1>a, RunTypes DEF Outcome, Futures
  <2>2. run'[a] = [run[a] EXCEPT !.at = "decided", !.future = Outcome(a)]
    BY <1>a, <1>13, <2>1, FutureEffect DEF Decided, Places, Working, Slot, Gate
  <2>3. /\ run'[a].at = "decided" /\ run'[a].cmd = run[a].cmd
        /\ run'[a].read = run[a].read /\ run'[a].base = run[a].base
    BY <1>b, <2>2 DEF Runs
  <2> QED  BY <1>13, <2>3 DEF Decided, GoesOn, Onward, Updating
<1>14. CASE Judges(a)
  BY <1>14, <1>g DEF Judges, Onward, Updating, Places, Working, Slot, Gate
<1>15. CASE RunsTool(a)
  BY <1>15, <1>g DEF RunsTool, Onward, Updating, Places, Working, Slot, Question
<1>16. CASE Reads(a)
  <2>1. Writing[run[a].at] \in Updating \cap Onward(run[a].at)
    BY <1>16, WritingPlaces DEF Reads, Onward, Updating
  <2>2. run'[a] = [run[a] EXCEPT !.at = Writing[run[a].at], !.base = config]
    BY <1>a, <1>16, <2>1, BaseEffect DEF Reads, Updating, Places, Working, Slot, Gate, Question
  <2>3. /\ run'[a].at = Writing[run[a].at] /\ run'[a].cmd = run[a].cmd
        /\ run'[a].read = run[a].read /\ run'[a].base = config
    BY <1>b, <2>2 DEF Runs
  <2> QED  BY <1>16, <2>1, <2>3 DEF GoesOn, Updating
<1>17. CASE Writes(a)
  BY <1>17, <1>g DEF Writes, Onward, Updating, Places, Working, Slot, Question
<1>18. CASE Publishes(a)
  <2>1. CASE config.question = None
    BY <1>18, <1>g, <2>1 DEF Publishes, Onward, Updating, Places, Working
  <2>2. CASE config.question # None
    <3>1. config.question \in Asked
      BY <1>a, <2>2 DEF Configs
    <3>2. /\ run'[a].at = "asked" /\ run'[a].cmd = run[a].cmd
          /\ run'[a].read = run[a].read /\ run'[a].base = run[a].base
      BY <1>a, <1>18, <2>2, <3>1, AskedEffect DEF Publishes
    <3> QED  BY <1>18, <3>2 DEF Publishes, GoesOn, Onward, Updating, Gate
  <2> QED  BY <2>1, <2>2
<1>19. CASE IsAnswered(a)
  BY <1>19, <1>g DEF IsAnswered, Onward, Updating, Places, Working, Slot, Question
<1>20. CASE StopsTool(a)
  BY <1>20, <1>e DEF StopsTool, Onward, Slot, Gate, Question
<1>21. CASE SlotFails(a)
  BY <1>21, <1>e DEF SlotFails, Onward
<1>22. CASE Unwinds(a)
  BY <1>22, <1>g DEF Unwinds, Onward, Updating, Places, Ending
<1>23. CASE Finishes(a)
  BY <1>23, <1>g DEF Finishes, Onward, Updating, Places, Ending
<1>24. CASE Completes(a)
  <2>1. run'[a] = [run[a] EXCEPT !.at = "over", !.end = "done"]
    BY <1>a, <1>24 DEF Completes
  <2>2. /\ run'[a].at = "over" /\ run'[a].cmd = run[a].cmd
        /\ run'[a].read = run[a].read /\ run'[a].base = run[a].base
    BY <1>b, <2>1 DEF Runs
  <2> QED  BY <1>24, <2>2 DEF Completes, GoesOn, Onward, Updating, Gate
<1> QED  BY <1>1, <1>2, <1>3, <1>4, <1>5, <1>6, <1>7, <1>8, <1>9, <1>10, <1>11, <1>12, <1>13, <1>14, <1>15, <1>16, <1>17, <1>18, <1>19, <1>20, <1>21, <1>22, <1>23, <1>24 DEF Acts, Step

-----------------------------------------------------------------------------
(* What a step of an attempt does to the session, the brokers and the stop. *)

\* Grants are made by people only, decisions are heard by their attempt only, and the
\* session's config is written by update_session_config only.
LEMMA Untouched ==
  ASSUME TypeOK, NEW a \in Attempts, Acts(a)
  PROVE  /\ granted' = granted
         /\ \A b \in Attempts \ {a} : said'[b] = said[b]
         /\ config' = config \/ (run[a].at \in Updating /\ config' = Patched(a))
         /\ persist' = persist \/ Judges(a)
<1> USE DEF session, broker, ghosts
<1>1. granted' = granted
  BY DEF Acts, Step, ClearStop, Leaves,
       Send, Begin, Turn, Model, ModelStopped, ModelFails, Chosen, Call, After, AsksApproval,
       Announced, Expires, Decided, Judges, RunsTool, Reads, Writes, Publishes, IsAnswered,
       StopsTool, SlotFails, Unwinds, Finishes, Completes
<1>2. \A b \in Attempts \ {a} : said'[b] = said[b]
  BY DEF TypeOK, Acts, Step, ClearStop, Leaves, Picks,
       Send, Begin, Turn, Model, ModelStopped, ModelFails, Chosen, Call, After, AsksApproval,
       Announced, Expires, Decided, Judges, RunsTool, Reads, Writes, Publishes, IsAnswered,
       StopsTool, SlotFails, Unwinds, Finishes, Completes
<1>3. config' = config \/ (run[a].at \in Updating /\ config' = Patched(a))
  BY DEF Acts, Step, Updating,
       Send, Begin, Turn, Model, ModelStopped, ModelFails, Chosen, Call, After, AsksApproval,
       Announced, Expires, Decided, Judges, RunsTool, Reads, Writes, Publishes, IsAnswered,
       StopsTool, SlotFails, Unwinds, Finishes, Completes
<1>4. persist' = persist \/ Judges(a)
  BY DEF Acts, Step,
       Send, Begin, Turn, Model, ModelStopped, ModelFails, Chosen, Call, After, AsksApproval,
       Announced, Expires, Decided, Judges, RunsTool, Reads, Writes, Publishes, IsAnswered,
       StopsTool, SlotFails, Unwinds, Finishes, Completes
<1> QED  BY <1>1, <1>2, <1>3, <1>4

\* What others miss grows by what is newly remembered, and an attempt that goes on with a
\* copy of the lists still misses what it did.
LEMMA MissedActions ==
  ASSUME TypeOK, NEW a \in Attempts, Acts(a)
  PROVE  /\ \A b \in Attempts \ {a} :
              /\ missed[b] \subseteq missed'[b]
              /\ run[b].at \in Holds => Memory(config') \ Memory(config) \subseteq missed'[b]
         /\ run[a].at \in Gate \ {"gate", "remembering"} =>
              missed'[a] = missed[a] \/ StopsTool(a) \/ SlotFails(a)
         /\ config' = config \/ Writes(a)
<1> USE DEF session, broker, ghosts
<1>1. config' = config \/ Writes(a)
  BY DEF Acts, Step,
       Send, Begin, Turn, Model, ModelStopped, ModelFails, Chosen, Call, After, AsksApproval,
       Announced, Expires, Decided, Judges, RunsTool, Reads, Publishes, IsAnswered,
       StopsTool, SlotFails, Unwinds, Finishes, Completes
<1>2. CASE Writes(a)
  BY <1>1, <1>2 DEF TypeOK, Writes, Gate, Memory
<1>3. CASE After(a)
  BY <1>1, <1>3 DEF TypeOK, After, Gate, Memory
<1>4. CASE AsksApproval(a)
  BY <1>1, <1>4 DEF TypeOK, AsksApproval, Gate, Memory
<1>5. CASE StopsTool(a) \/ SlotFails(a)
  BY <1>1, <1>5 DEF TypeOK, StopsTool, SlotFails, Leaves, Memory
<1>6. CASE ~(Writes(a) \/ After(a) \/ AsksApproval(a) \/ StopsTool(a) \/ SlotFails(a))
  <2>1. missed' = missed /\ config' = config
    BY <1>1, <1>6 DEF Acts, Step, Send, Begin, Turn, Model, ModelStopped, ModelFails, Chosen, Call,
         Announced, Expires, Decided, Judges, RunsTool, Reads, Publishes, IsAnswered,
         Unwinds, Finishes, Completes
  <2> QED  BY <2>1 DEF Memory
<1> QED  BY <1>1, <1>2, <1>3, <1>4, <1>5, <1>6

\* Only these steps touch a broker; others leave an attempt that waits where it is.
LEMMA BrokerActions ==
  ASSUME NEW a \in Attempts, Acts(a)
  PROVE  \/ AsksApproval(a) \/ Decided(a) \/ Publishes(a) \/ IsAnswered(a)
         \/ StopsTool(a) \/ SlotFails(a)
         \/ /\ UNCHANGED <<pending, holder, leaked>>
            /\ run[a].at \in {"announce", "wait", "asked", "answer"} => Announced(a) \/ Expires(a)
<1> USE DEF session, broker, ghosts
<1> QED  BY WritingPlaces DEF Acts, Step, ClearStop,
       Send, Begin, Turn, Model, ModelStopped, ModelFails, Chosen, Call, After, AsksApproval,
       Announced, Expires, Decided, Judges, RunsTool, Reads, Writes, Publishes, IsAnswered,
       StopsTool, SlotFails, Unwinds, Finishes, Completes

\* Only these steps touch the stop, what was heard of it and what has begun.
LEMMA StopActions ==
  ASSUME NEW a \in Attempts, Acts(a)
  PROVE  \/ Send(a) \/ Finishes(a)
         \/ Turn(a) \/ Call(a)
         \/ UNCHANGED <<stop, heard, begun>> /\ (Chosen(a) \/ run[a].at # "chosen")
<1> USE DEF session, broker, ghosts
<1> QED  BY WritingPlaces DEF Acts, Step, Leaves, Slot, Gate, Question,
       Send, Begin, Turn, Model, ModelStopped, ModelFails, Chosen, Call, After, AsksApproval,
       Announced, Expires, Decided, Judges, RunsTool, Reads, Writes, Publishes, IsAnswered,
       StopsTool, SlotFails, Unwinds, Finishes, Completes

-----------------------------------------------------------------------------
(* A step of an attempt keeps the invariant.                               *)

\* What is true of an attempt stays true while others move and grants are added.
LEMMA LocalKept ==
  ASSUME NEW b \in Attempts, CountFor(b), SaidFor(b), ConsentFor(b),
         run'[b].at = run[b].at, run'[b].n = run[b].n, run'[b].cmd = run[b].cmd,
         run'[b].future = run[b].future, run'[b].q = run[b].q,
         said'[b] = said[b], granted \subseteq granted', plan' = plan
  PROVE  CountFor(b)' /\ SaidFor(b)' /\ ConsentFor(b)'
<1>1. CountFor(b)'
  BY DEF CountFor
<1>2. SaidFor(b)'
  BY DEF SaidFor, Approves
<1>3. ConsentFor(b)'
  BY DEF ConsentFor, Approves, Remembers
<1> QED  BY <1>1, <1>2, <1>3

\* Every attempt's record and decision stay as CountInv and SaidInv say.
LEMMA CallsStep ==
  ASSUME AssistantAssumption, TypeOK, CountInv, SaidInv, GrantInv, NEW a \in Attempts, Acts(a)
  PROVE  CountInv' /\ SaidInv'
<1>1. CountFor(a)' /\ SaidFor(a)' /\ ConsentFor(a)'
  BY LocalStep
<1>2. ASSUME NEW b \in Attempts \ {a} PROVE CountFor(b)' /\ SaidFor(b)' /\ ConsentFor(b)'
  <2>1. run'[b] = run[b] /\ said'[b] = said[b] /\ granted' = granted /\ plan' = plan
    BY ActStep, Untouched, PlanStays DEF Keeps
  <2>2. CountFor(b) /\ SaidFor(b) /\ ConsentFor(b)
    BY DEF CountInv, SaidInv
  <2> QED  BY <2>1, <2>2, LocalKept
<1> QED  BY <1>1, <1>2 DEF CountInv, SaidInv

\* Nothing is remembered that was not granted.
LEMMA GrantStep ==
  ASSUME AssistantAssumption, TypeOK, CountInv, SaidInv, GrantInv, NEW a \in Attempts, Acts(a)
  PROVE  GrantInv'
<1>1. Keeps(a) /\ GoesOn(a) /\ granted' = granted
  BY ActStep, OnwardStep, Untouched
<1>2. Granted(config')
  <2>1. run[a].at \in Updating /\ config' = Patched(a) => Granted(Patched(a))
    BY PatchedConfig DEF Updating
  <2> QED  BY <2>1, Untouched DEF GrantInv
<1>3. persist' \subseteq granted
  <2>1. CASE persist' = persist
    BY <2>1 DEF GrantInv
  <2>2. CASE persist' # persist
    <3>1. /\ run[a].at = "decided" /\ ~Refused(a) /\ run[a].future.action = "approve_persist"
          /\ persist' = persist \cup {run[a].future.prefix}
      BY <2>2, Untouched DEF Judges
    <3> QED  BY <3>1, PersistedGrant DEF GrantInv
  <2> QED  BY <2>1, <2>2
<1>4. Granted(run'[a].read) /\ Granted(run'[a].base)
  BY <1>1 DEF GoesOn, GrantInv, Granted, NoConfig
<1>5. \A b \in Attempts \ {a} : Granted(run'[b].read) /\ Granted(run'[b].base)
  BY <1>1 DEF Keeps, GrantInv
<1> QED  BY <1>1, <1>2, <1>3, <1>4, <1>5 DEF GrantInv, Granted

\* Who waits is known to the brokers, and the brokers know nobody else.
LEMMA BrokerStep ==
  ASSUME AssistantAssumption, TypeOK, CountInv, GrantInv, BrokerInv, NEW a \in Attempts, Acts(a)
  PROVE  BrokerInv'
<1>a. /\ run \in [Attempts -> Runs] /\ pending \subseteq Attempts /\ leaked \subseteq Attempts
      /\ holder \in [Asked -> Attempts \cup {None}] /\ config \in Configs
  BY DEF TypeOK
<1>b. Keeps(a) /\ GoesOn(a)
  BY ActStep, OnwardStep
<1>c. /\ a \in pending \ leaked => run[a].at \in {"announce", "wait"}
      /\ \A q \in Asked : holder[q] = a /\ a \notin leaked =>
           run[a].at \in {"asked", "answer"} /\ run[a].q = q
      /\ a \in leaked => run[a].at \in Ending \cup {"over"}
      /\ a \in pending => run[a].cmd \in Commands /\ RuleOf[run[a].cmd] # None
  BY AssistantAssumption DEF BrokerInv, OpenIsAwaited, AssistantAssumption
<1>d. /\ a \in leaked => run'[a].at \in Ending \cup {"over"}
      /\ a \in leaked => run'[a].cmd = run[a].cmd
  BY <1>b, <1>c DEF GoesOn, Onward, Ending
<1>i. ASSUME pending' \subseteq pending \cup {a}, leaked \subseteq leaked', leaked' \subseteq leaked \cup {a},
             \A q \in Asked : holder'[q] \in {holder[q], None, a},
             a \in pending' \ leaked' => run'[a].at \in {"announce", "wait"},
             \A q \in Asked : holder'[q] = a /\ a \notin leaked' =>
               run'[a].at \in {"asked", "answer"} /\ run'[a].q = q,
             a \in leaked' => run'[a].at \in Ending \cup {"over"},
             a \in pending' => run'[a].cmd \in Commands /\ RuleOf[run'[a].cmd] # None
      PROVE  BrokerInv'
  <2>1. \A b \in Attempts \ {a} : /\ run'[b] = run[b]
                                  /\ b \in pending' => b \in pending
                                  /\ b \in leaked' <=> b \in leaked
    BY <1>b, <1>i DEF Keeps
  <2>2. \A b \in pending' \ leaked' : run'[b].at \in {"announce", "wait"}
    BY <1>a, <1>i, <2>1 DEF BrokerInv, OpenIsAwaited
  <2>3. \A q \in Asked : holder'[q] \notin leaked' \cup {None} =>
          run'[holder'[q]].at \in {"asked", "answer"} /\ run'[holder'[q]].q = q
    <3> SUFFICES ASSUME NEW q \in Asked, holder'[q] \notin leaked' \cup {None}
                 PROVE  run'[holder'[q]].at \in {"asked", "answer"} /\ run'[holder'[q]].q = q
      OBVIOUS
    <3>1. CASE holder'[q] = a
      BY <1>i, <3>1
    <3>2. CASE holder'[q] # a
      <4>1. PICK b \in Attempts \ {a} : b = holder'[q]
        BY <1>a, <1>i, <3>2
      <4> QED  BY <1>i, <2>1, <4>1 DEF BrokerInv, OpenIsAwaited
    <3> QED  BY <3>1, <3>2
  <2>4. \A b \in leaked' : run'[b].at \in Ending \cup {"over"}
    BY <1>a, <1>i, <2>1 DEF BrokerInv
  <2>5. \A b \in pending' : run'[b].cmd \in Commands /\ RuleOf[run'[b].cmd] # None
    BY <1>a, <1>i, <2>1 DEF BrokerInv
  <2> QED  BY <2>2, <2>3, <2>4, <2>5 DEF BrokerInv, OpenIsAwaited
<1> USE DEF session, broker, ghosts
<1>1. CASE AsksApproval(a)
  <2>1. /\ run[a].at = "gate" /\ holder' = holder /\ leaked' = leaked
        /\ pending' \subseteq pending \cup {a} /\ (a \in pending' => a \in pending \/ run'[a].at = "announce")
    <3>1. CASE Goes(a, "run") /\ pending' = pending
      BY <1>1, <3>1 DEF AsksApproval
    <3>2. ASSUME NEW read \in Configs, run' = [run EXCEPT ![a].at = "announce", ![a].read = read],
                 pending' = pending \cup {a}
          PROVE  run'[a].at = "announce"
      <4>1. run'[a] = [run[a] EXCEPT !.at = "announce", !.read = read]
        BY <1>a, <3>2, ReadEffect DEF Places, Working, Slot, Gate
      <4> QED  BY <1>a, <4>1 DEF Runs
    <3>3. \A mine \in {config, NoConfig} : [mine EXCEPT !.question = None] \in Configs
      BY <1>a DEF Configs, NoConfig
    <3> QED  BY <1>1, <3>1, <3>2, <3>3 DEF AsksApproval
  <2>2. a \notin leaked /\ a \notin pending /\ \A q \in Asked : holder[q] # a
    BY <1>c, <2>1 DEF Ending
  <2>3. run[a].cmd \in Commands /\ RuleOf[run[a].cmd] # None
    BY <2>1 DEF CountInv, CountFor, Slot, Gate
  <2>4. run'[a].at = "announce" => run'[a].cmd = run[a].cmd
    BY <1>b DEF GoesOn, Slot, Gate
  <2> QED  BY <1>i, <2>1, <2>2, <2>3, <2>4
<1>2. CASE Decided(a)
  <2>1. /\ run[a].at = "wait" /\ holder' = holder /\ leaked' = leaked /\ pending' = pending \ {a}
    BY <1>2 DEF Decided
  <2> QED  BY <1>c, <1>i, <2>1 DEF Ending
<1>3. CASE Publishes(a)
  <2>1. run[a].at = "publish" /\ pending' = pending /\ leaked' = leaked
    BY <1>3 DEF Publishes
  <2>2. a \notin leaked /\ a \notin pending /\ \A q \in Asked : holder[q] # a
    BY <1>c, <2>1 DEF Ending
  <2>3. CASE config.question = None
    BY <1>3, <1>i, <2>1, <2>2, <2>3 DEF Publishes
  <2>4. CASE config.question # None
    <3>1. PICK q \in Asked : q = config.question
      BY <1>a, <2>4 DEF Configs
    <3>2. run'[a].at = "asked" /\ run'[a].q = q /\ holder' = [holder EXCEPT ![q] = a]
      BY <1>a, <1>3, <2>4, <3>1, AskedEffect DEF Publishes
    <3> QED  BY <1>a, <1>i, <2>1, <2>2, <3>2
  <2> QED  BY <2>3, <2>4
<1>4. CASE IsAnswered(a)
  <2>1. PICK q \in Asked : q = run[a].q
    BY <1>4 DEF IsAnswered, CountInv, CountFor
  <2>2. /\ run[a].at = "answer" /\ pending' = pending /\ leaked' = leaked
        /\ holder' = [holder EXCEPT ![q] = None]
    BY <1>4, <2>1 DEF IsAnswered
  <2>3. a \notin leaked /\ a \notin pending /\ \A r \in Asked : holder[r] = a => r = q
    BY <1>c, <2>1, <2>2 DEF Ending
  <2>4. a # None
    BY AssistantAssumption DEF AssistantAssumption
  <2> QED  BY <1>a, <1>i, <2>2, <2>3, <2>4
<1>5. CASE StopsTool(a) \/ SlotFails(a)
  <2>1. Leaves(a) /\ run'[a].at = "unwind" /\ run[a].at \in Slot
    BY <1>a, <1>5, EndsEffect DEF StopsTool, SlotFails, Slot, Gate, Question
  <2>2. a \notin leaked /\ run'[a].cmd = run[a].cmd
    BY <1>b, <1>c, <2>1 DEF GoesOn, Ending, Slot, Gate, Question
  <2>3. CASE run[a].at = "answer"
    <3>1. PICK q \in Asked : q = run[a].q
      BY <2>3 DEF CountInv, CountFor
    <3>2. pending' = pending /\ leaked' = leaked /\ holder' = [holder EXCEPT ![q] = None]
      BY <2>1, <2>3, <3>1 DEF Leaves
    <3>3. a \notin pending /\ a # None /\ \A r \in Asked : holder[r] = a => r = q
      BY <1>c, <2>2, <2>3, <3>1, AssistantAssumption DEF AssistantAssumption
    <3> QED  BY <1>a, <1>i, <2>2, <3>2, <3>3
  <2>4. CASE run[a].at # "answer"
    <3>1. /\ holder' = holder
          /\ pending' = IF run[a].at = "wait" THEN pending \ {a} ELSE pending
          /\ leaked' = IF run[a].at \in {"announce", "asked"} THEN leaked \cup {a} ELSE leaked
      BY <2>1, <2>4 DEF Leaves
    <3> QED  BY <1>a, <1>c, <1>i, <2>1, <2>2, <2>4, <3>1 DEF Ending
  <2> QED  BY <2>3, <2>4
<1>6. CASE /\ UNCHANGED <<pending, holder, leaked>>
           /\ run[a].at \in {"announce", "wait", "asked", "answer"} => Announced(a) \/ Expires(a)
  <2>1. CASE run[a].at \in {"announce", "wait", "asked", "answer"}
    <3>1. /\ run[a].at = "announce" => run'[a].at = "wait"
          /\ run[a].at = "wait" => run'[a].at = "wait"
          /\ run[a].at \in {"asked", "answer"} => run'[a].at = "answer"
      <4>1. CASE Announced(a)
        BY <1>a, <2>1, <4>1, GoesEffect DEF Announced, Places, Working, Slot, Gate, Question
      <4>2. CASE Expires(a)
        <5>1. run[a] \in Runs /\ run'[a] = [run[a] EXCEPT !.late = TRUE] /\ run[a].at \in {"wait", "answer"}
          BY <1>a, <4>2 DEF Expires
        <5> QED  BY <5>1 DEF Runs
      <4> QED  BY <1>6, <2>1, <4>1, <4>2
    <3>2. run'[a].cmd = run[a].cmd /\ (run'[a].at = "answer" => run'[a].q = run[a].q)
      BY <1>b, <2>1, <3>1 DEF GoesOn, Slot, Gate, Question
    <3> QED  BY <1>6, <1>c, <1>d, <1>i, <2>1, <3>1, <3>2
  <2>2. CASE run[a].at \notin {"announce", "wait", "asked", "answer"}
    BY <1>6, <1>c, <1>d, <1>i, <2>2
  <2> QED  BY <2>1, <2>2
<1> QED  BY <1>1, <1>2, <1>3, <1>4, <1>5, <1>6, BrokerActions

\* What begins after a stop.
LEMMA StopStep ==
  ASSUME AssistantAssumption, TypeOK, StopInv, GrantInv, NEW a \in Attempts, Acts(a)
  PROVE  StopInv'
<1>a. /\ heard \in [Attempts -> BOOLEAN] /\ begun \in [Attempts -> Nat] /\ stop \in BOOLEAN
      /\ run \in [Attempts -> Runs]
  BY DEF TypeOK
<1>b. Keeps(a) /\ GoesOn(a)
  BY ActStep, OnwardStep
<1>c. run'[a].at = "call" => run[a].at = "chosen"
  BY <1>b DEF GoesOn, Onward
<1>1. CASE Send(a) \/ Finishes(a)
  BY <1>1 DEF Send, Finishes, ClearStop, StopInv, StopFor
<1>2. CASE Turn(a) \/ Call(a)
  <2>1. stop' = stop /\ heard' = heard /\ \A b \in Attempts \ {a} : begun'[b] = begun[b]
    BY <1>a, <1>2 DEF Turn, Call, Begins
  <2>2. \A b \in Attempts \ {a} : StopFor(b)'
    BY <1>b, <2>1 DEF Keeps, StopInv, StopFor
  <2>3. StopFor(a)'
    <3>1. CASE Turn(a)
      <4>1. begun'[a] = begun[a] \/ (~stop /\ begun' = IF heard[a] THEN [begun EXCEPT ![a] = @ + 1] ELSE begun)
        BY <3>1 DEF Turn, Begins
      <4>2. run'[a].at # "call"
        BY <1>c, <3>1 DEF Turn
      <4> QED  BY <2>1, <4>1, <4>2 DEF StopInv, StopFor
    <3>2. CASE Call(a)
      <4>1. run[a].at = "call" /\ begun' = IF heard[a] THEN [begun EXCEPT ![a] = @ + 1] ELSE begun
        BY <3>2 DEF Call, Begins
      <4> QED  BY <1>a, <1>c, <2>1, <4>1 DEF StopInv, StopFor
    <3> QED  BY <1>2, <3>1, <3>2
  <2> QED  BY <2>2, <2>3 DEF StopInv
<1>3. CASE UNCHANGED <<stop, heard, begun>> /\ (Chosen(a) \/ run[a].at # "chosen")
  <2>1. run'[a].at = "call" => ~stop
    BY <1>a, <1>c, <1>3, EndsEffect DEF Chosen
  <2> QED  BY <1>b, <1>3, <2>1 DEF Keeps, StopInv, StopFor
<1> QED  BY <1>1, <1>2, <1>3, StopActions

\* What an attempt's copy of the lists does not show, it has missed.
LEMMA MissedStep ==
  ASSUME AssistantAssumption, TypeOK, CountInv, SaidInv, GrantInv, MissedInv, NEW a \in Attempts, Acts(a)
  PROVE  MissedInv'
<1>a. Keeps(a) /\ GoesOn(a) /\ run[a].at \in Places /\ config \in Configs
  BY ActStep, OnwardStep, RunTypes DEF TypeOK
<1>b. config' \in Configs
  BY TypeStep DEF TypeOK
<1>1. ASSUME run'[a].at \in Gate \ {"gate"}
      PROVE  Unseen(config', run'[a].read) \subseteq missed'[a]
  <2>0. config' = config
    BY <1>a, <1>1, Untouched DEF GoesOn, Onward, Updating, Gate
  <2>1. CASE run'[a].at = "announce"
    BY <1>a, <2>0, <2>1 DEF GoesOn
  <2>2. CASE run'[a].at # "announce"
    <3>1. run[a].at \in Gate \ {"gate", "remembering"} /\ run'[a].read = run[a].read
      BY <1>a, <1>1, <2>2 DEF GoesOn, Onward, Gate
    <3>2. ~StopsTool(a) /\ ~SlotFails(a)
      BY <1>1, EndsEffect DEF StopsTool, SlotFails, TypeOK, Gate
    <3>3. missed'[a] = missed[a]
      BY <3>1, <3>2, MissedActions
    <3>4. Unseen(config, run[a].read) \subseteq missed[a]
      BY <3>1 DEF MissedInv, MissedFor
    <3> QED  BY <2>0, <3>1, <3>3, <3>4
  <2> QED  BY <2>1, <2>2
<1>2. ASSUME run'[a].at \in Updating
      PROVE  Unseen(config', run'[a].base) \subseteq missed'[a]
  <2>1. run[a].at \notin Updating
    BY <1>a, <1>2 DEF GoesOn, Onward, Updating
  <2>2. run'[a].base = config /\ config' = config
    BY <1>a, <1>2, <2>1, Untouched DEF GoesOn
  <2> QED  BY <2>2 DEF Unseen
<1>3. ASSUME NEW b \in Attempts \ {a} PROVE MissedFor(b)'
  <2>1. run'[b] = run[b] /\ MissedFor(b)
    BY <1>a DEF Keeps, MissedInv
  <2>2. /\ missed[b] \subseteq missed'[b]
        /\ run[b].at \in Holds => Memory(config') \ Memory(config) \subseteq missed'[b]
    BY MissedActions
  <2>3. \A d \in Configs : Unseen(config', d) \subseteq Unseen(config, d) \cup (Memory(config') \ Memory(config))
    BY <1>a, <1>b, AssistantAssumption DEF Unseen, Memory, Configs, AssistantAssumption
  <2>4. run[b].read \in Configs /\ run[b].base \in Configs
    BY RunTypes DEF TypeOK
  <2>5. run[b].at \in Gate \ {"gate"} => Unseen(config', run[b].read) \subseteq missed'[b]
    BY <2>1, <2>2, <2>3, <2>4 DEF MissedFor, Gate, Holds
  <2>6. run[b].at \in Updating => Unseen(config', run[b].base) \subseteq missed'[b]
    BY <2>1, <2>2, <2>3, <2>4 DEF MissedFor, Updating, Holds
  <2> QED  BY <2>1, <2>5, <2>6 DEF MissedFor, Updating
<1> QED  BY <1>1, <1>2, <1>3 DEF MissedInv, MissedFor, Updating

-----------------------------------------------------------------------------
(* The other steps: people, a stop, a restart.                             *)

\* A person's answer or a stop moves no attempt.
LEMMA NoneMoves ==
  ASSUME AssistantAssumption, GrantInv, MissedInv, run' \in [Attempts -> Runs], TypeOK,
         \A b \in Attempts : /\ run'[b].at = run[b].at /\ run'[b].read = run[b].read
                             /\ run'[b].base = run[b].base,
         config' = config, persist' = persist, missed' = missed,
         granted \subseteq granted'
  PROVE  GrantInv' /\ MissedInv'
<1>1. GrantInv'
  BY DEF GrantInv, Granted
<1>2. MissedInv'
  BY DEF MissedInv, MissedFor, Unseen
<1> QED  BY <1>1, <1>2

\* A decision reaches the call that waits for it, and is granted with it.
LEMMA ResolveStep ==
  ASSUME AssistantAssumption, IInv, NEW a \in Attempts, NEW answer \in Answers, Resolve(a, answer)
  PROVE  IInv'
<1>a. /\ run \in [Attempts -> Runs] /\ said \in [Attempts -> Answers \cup {NoAnswer}]
      /\ granted \subseteq Rules \cup Prefixes /\ run[a] \in Runs
  BY DEF IInv, TypeOK
<1>b. a \in pending /\ run[a].cmd \in Commands /\ RuleOf[run[a].cmd] # None
  BY DEF Resolve, IInv, BrokerInv
<1>c. run[a].at \in {"announce", "wait"} \cup Ending \cup {"over"}
  BY <1>b DEF IInv, BrokerInv, OpenIsAwaited
<1>1. PICK r \in Runs : r = [run[a] EXCEPT !.future = answer]
  BY <1>a DEF Runs, Futures
<1>2. /\ r.at = run[a].at /\ r.n = run[a].n /\ r.cmd = run[a].cmd /\ r.q = run[a].q
      /\ r.read = run[a].read /\ r.base = run[a].base /\ r.future = answer
  BY <1>a, <1>1 DEF Runs
<1>3. run' = [run EXCEPT ![a] = r]
  BY <1>1 DEF Resolve
<1>4. run' \in [Attempts -> Runs] /\ run'[a] = r /\ \A b \in Attempts \ {a} : run'[b] = run[b]
  BY <1>a, <1>3
<1>5. /\ said' \in [Attempts -> Answers \cup {NoAnswer}] /\ said'[a] = answer
      /\ \A b \in Attempts \ {a} : said'[b] = said[b]
  BY <1>a DEF Resolve
<1>6. /\ granted' = granted \cup Given(run[a].cmd, answer)
      /\ UNCHANGED <<plan, config, status, persist, stop, pending, holder, heard, begun, missed, leaked, faults>>
  BY DEF Resolve, session, broker
<1>7. Given(run[a].cmd, answer) \subseteq Rules \cup Prefixes
  <2>1. answer.prefix \in Prefixes \cup {None}
    BY AssistantAssumption DEF AssistantAssumption
  <2>2. RuleOf[run[a].cmd] \in Rules
    BY <1>b, AssistantAssumption DEF AssistantAssumption
  <2> QED  BY <2>1, <2>2 DEF Given
<1>8. TypeOK'
  BY <1>a, <1>4, <1>5, <1>6, <1>7 DEF IInv, TypeOK
<1>9. \A b \in Attempts : /\ run'[b].at = run[b].at /\ run'[b].n = run[b].n /\ run'[b].cmd = run[b].cmd
                          /\ run'[b].q = run[b].q /\ run'[b].read = run[b].read
                          /\ run'[b].base = run[b].base
  BY <1>2, <1>4
<1>10. CountInv'
  BY <1>6, <1>9 DEF IInv, CountInv, CountFor
<1>11. SaidInv'
  <2>1. SaidFor(a)' /\ ConsentFor(a)'
    BY <1>2, <1>4, <1>5, <1>6, <1>c DEF SaidFor, ConsentFor, Ending, Gate
  <2>2. \A b \in Attempts \ {a} : SaidFor(b)' /\ ConsentFor(b)'
    BY <1>4, <1>5, <1>6, LocalKept DEF IInv, CountInv, SaidInv
  <2> QED  BY <2>1, <2>2 DEF SaidInv
<1>12. GrantInv' /\ MissedInv'
  BY <1>4, <1>6, <1>9, NoneMoves DEF IInv
<1>13. BrokerInv'
  <2>1. BrokerInv /\ holder \in [Asked -> Attempts \cup {None}] /\ pending \cup leaked \subseteq Attempts
    BY DEF IInv, TypeOK
  <2> QED  BY <1>6, <1>9, <2>1 DEF BrokerInv, OpenIsAwaited
<1>14. StopInv'
  BY <1>6, <1>9 DEF IInv, StopInv, StopFor
<1> QED  BY <1>8, <1>10, <1>11, <1>12, <1>13, <1>14 DEF IInv

\* An answer reaches the attempt that holds the question.
LEMMA AnswerStep ==
  ASSUME AssistantAssumption, IInv, NEW q \in Asked, Answer(q)
  PROVE  IInv'
<1>a. /\ run \in [Attempts -> Runs] /\ holder \in [Asked -> Attempts \cup {None}]
  BY DEF IInv, TypeOK
<1>b. PICK a \in Attempts : a = holder[q]
  BY <1>a DEF Answer
<1>c. run[a].at \in {"asked", "answer"} \cup Ending \cup {"over"}
  BY <1>b, AssistantAssumption DEF IInv, BrokerInv, OpenIsAwaited, AssistantAssumption
<1>d. run[a] \in Runs
  BY <1>a
<1>1. PICK r \in Runs : r = [run[a] EXCEPT !.future = Answered]
  BY <1>d DEF Runs, Futures
<1>2. /\ r.at = run[a].at /\ r.n = run[a].n /\ r.cmd = run[a].cmd /\ r.q = run[a].q
      /\ r.read = run[a].read /\ r.base = run[a].base
  BY <1>d, <1>1 DEF Runs
<1>3. run' = [run EXCEPT ![a] = r]
  BY <1>b, <1>1 DEF Answer
<1>4. run' \in [Attempts -> Runs] /\ run'[a] = r /\ \A b \in Attempts \ {a} : run'[b] = run[b]
  BY <1>a, <1>3
<1>6. UNCHANGED <<plan, config, status, persist, stop, pending, holder, said, granted, heard, begun,
                  missed, leaked, faults>>
  BY DEF Answer, session, broker, ghosts
<1>8. TypeOK'
  BY <1>4, <1>6 DEF IInv, TypeOK
<1>9. \A b \in Attempts : /\ run'[b].at = run[b].at /\ run'[b].n = run[b].n /\ run'[b].cmd = run[b].cmd
                          /\ run'[b].q = run[b].q /\ run'[b].read = run[b].read
                          /\ run'[b].base = run[b].base
  BY <1>2, <1>4
<1>10. CountInv'
  BY <1>6, <1>9 DEF IInv, CountInv, CountFor
<1>11. SaidInv'
  <2>1. SaidFor(a)' /\ ConsentFor(a)'
    BY <1>9, <1>c DEF SaidFor, ConsentFor, Ending, Gate
  <2>2. \A b \in Attempts \ {a} : SaidFor(b)' /\ ConsentFor(b)'
    BY <1>4, <1>6, LocalKept DEF IInv, CountInv, SaidInv
  <2> QED  BY <2>1, <2>2 DEF SaidInv
<1>12. GrantInv' /\ MissedInv'
  BY <1>4, <1>6, <1>9, NoneMoves DEF IInv
<1>13. BrokerInv'
  <2>1. BrokerInv /\ holder \in [Asked -> Attempts \cup {None}] /\ pending \cup leaked \subseteq Attempts
    BY DEF IInv, TypeOK
  <2> QED  BY <1>6, <1>9, <2>1 DEF BrokerInv, OpenIsAwaited
<1>14. StopInv'
  BY <1>6, <1>9 DEF IInv, StopInv, StopFor
<1> QED  BY <1>8, <1>10, <1>11, <1>12, <1>13, <1>14 DEF IInv

\* A stop wakes those who wait, and has them count what they begin from now on.
LEMMA StopsAll ==
  ASSUME AssistantAssumption, IInv, Stop
  PROVE  IInv'
<1>a. run \in [Attempts -> Runs] /\ heard \in [Attempts -> BOOLEAN] /\ begun \in [Attempts -> Nat]
  BY DEF IInv, TypeOK
<1>1. /\ ~stop /\ stop' = TRUE
      /\ \A b \in Attempts : run'[b] \in {run[b], [run[b] EXCEPT !.woken = TRUE]}
      /\ UNCHANGED <<plan, config, status, persist, pending, holder, said, granted, begun, missed, leaked, faults>>
  BY DEF Stop, session, broker
<1>2. \A b \in Attempts : [run[b] EXCEPT !.woken = TRUE] \in Runs
  <2>1. ASSUME NEW b \in Attempts PROVE [run[b] EXCEPT !.woken = TRUE] \in Runs
    <3>1. run[b] \in Runs
      BY <1>a
    <3> QED  BY <3>1 DEF Runs
  <2> QED  BY <2>1
<1>3. run' \in [Attempts -> Runs]
  <2>1. \A b \in Attempts :
          (IF run[b].at \in Slot \cup {"model"} THEN [run[b] EXCEPT !.woken = TRUE] ELSE run[b]) \in Runs
    BY <1>a, <1>2
  <2> QED  BY <2>1 DEF Stop
<1>4. heard' \in [Attempts -> BOOLEAN]
  BY <1>a DEF Stop
<1>8. TypeOK'
  BY <1>1, <1>3, <1>4 DEF IInv, TypeOK
<1>9. \A b \in Attempts : /\ run'[b].at = run[b].at /\ run'[b].n = run[b].n /\ run'[b].cmd = run[b].cmd
                          /\ run'[b].q = run[b].q /\ run'[b].read = run[b].read
                          /\ run'[b].base = run[b].base /\ run'[b].future = run[b].future
  <2>1. ASSUME NEW b \in Attempts, NEW r \in Runs, r = [run[b] EXCEPT !.woken = TRUE]
        PROVE  /\ r.at = run[b].at /\ r.n = run[b].n /\ r.cmd = run[b].cmd
               /\ r.q = run[b].q /\ r.read = run[b].read
               /\ r.base = run[b].base /\ r.future = run[b].future
    <3>1. run[b] \in Runs
      BY <1>a
    <3> QED  BY <2>1, <3>1 DEF Runs
  <2> QED  BY <1>1, <1>2, <2>1
<1>10. CountInv' /\ SaidInv'
  BY <1>1, <1>9, LocalKept DEF IInv, CountInv, SaidInv
<1>12. GrantInv' /\ MissedInv'
  BY <1>1, <1>3, <1>9, NoneMoves DEF IInv
<1>13. BrokerInv'
  <2>1. BrokerInv /\ holder \in [Asked -> Attempts \cup {None}] /\ pending \cup leaked \subseteq Attempts
    BY DEF IInv, TypeOK
  <2> QED  BY <1>1, <1>9, <2>1 DEF BrokerInv, OpenIsAwaited
<1>14. StopInv'
  <2>1. \A b \in Attempts : begun[b] = 0
    BY <1>1, <1>a DEF IInv, StopInv, StopFor
  <2> QED  BY <1>1, <2>1 DEF StopInv, StopFor
<1> QED  BY <1>8, <1>10, <1>12, <1>13, <1>14 DEF IInv

\* After a restart no attempt is at work, and the brokers know nobody.
LEMMA RestartStep ==
  ASSUME AssistantAssumption, IInv, Restart
  PROVE  IInv'
<1>a. run \in [Attempts -> Runs] /\ faults \in Nat /\ leaked \subseteq Attempts
  BY DEF IInv, TypeOK
<1>1. PICK r \in Runs : r = [Unused EXCEPT !.at = "over", !.end = "dead"]
  BY UnusedType DEF Runs, Places
<1>2. r.at = "over" /\ r.n = 0 /\ r.read = NoConfig /\ r.base = NoConfig
  BY <1>1, UnusedType DEF Unused, Runs
<1>3. run' = [b \in Attempts |-> IF b \in Live THEN r ELSE run[b]]
  BY <1>1 DEF Restart
<1>4. /\ run' \in [Attempts -> Runs]
      /\ \A b \in Attempts : run'[b] = r \/ (run'[b] = run[b] /\ run[b].at \in {"unused", "over"})
  <2>1. \A b \in Attempts : b \notin Live => run[b].at \in {"unused", "over"}
    BY <1>a, RunTypes DEF Live, Places
  <2> QED  BY <1>3, <1>a, <2>1
<1>5. /\ stop' = FALSE /\ heard' = [b \in Attempts |-> FALSE] /\ begun' = [b \in Attempts |-> 0]
      /\ pending' = {} /\ holder' = [q \in Asked |-> None] /\ said' = [b \in Attempts |-> NoAnswer]
      /\ faults' = faults + 1 /\ missed' = [b \in Attempts |-> {}]
      /\ UNCHANGED <<plan, config, status, persist, granted, leaked>>
  BY DEF Restart, ClearStop, Fault, session
<1>6. TypeOK'
  <2>1. holder' \in [Asked -> Attempts \cup {None}] /\ said' \in [Attempts -> Answers \cup {NoAnswer}]
    BY <1>5
  <2>2. heard' \in [Attempts -> BOOLEAN] /\ begun' \in [Attempts -> Nat] /\ faults' \in Nat
    BY <1>5, <1>a
  <2> QED  BY <1>4, <1>5, <2>1, <2>2 DEF IInv, TypeOK
<1>7. \A b \in Attempts : run'[b].at \in {"unused", "over"}
  BY <1>2, <1>4
<1>8. CountInv'
  <2>1. \A b \in Attempts : run'[b].n <= plan[b].calls
    <3>1. \A b \in Attempts : plan[b].calls \in Nat
      BY PlanTypes, AssistantAssumption DEF IInv, TypeOK, AssistantAssumption
    <3> QED  BY <1>2, <1>4, <1>5, <3>1 DEF IInv, CountInv, CountFor
  <2> QED  BY <1>5, <1>7, <2>1 DEF CountInv, CountFor, Slot, Gate, Question
<1>9. SaidInv'
  BY <1>5, <1>7 DEF SaidInv, SaidFor, ConsentFor, Gate
<1>10. GrantInv'
  BY <1>2, <1>4, <1>5 DEF IInv, GrantInv, Granted, NoConfig
<1>11. BrokerInv'
  <2>1. \A b \in leaked : run'[b].at = "over"
    BY <1>2, <1>4, <1>a DEF IInv, BrokerInv, Ending
  <2> QED  BY <1>5, <2>1 DEF BrokerInv, OpenIsAwaited
<1>12. StopInv'
  BY <1>5 DEF StopInv, StopFor
<1>13. MissedInv'
  BY <1>7 DEF MissedInv, MissedFor, Gate
<1> QED  BY <1>6, <1>8, <1>9, <1>10, <1>11, <1>12, <1>13 DEF IInv

-----------------------------------------------------------------------------
(* The invariant holds, and what follows from it.                          *)

\* A session in which nothing has been said satisfies the invariant.
LEMMA InitInv == AssistantAssumption /\ Init => IInv
<1> SUFFICES ASSUME AssistantAssumption, Init PROVE IInv
  OBVIOUS
<1>1. \A a \in Attempts : /\ run[a].at = "unused" /\ run[a].n = 0
                          /\ run[a].read = NoConfig /\ run[a].base = NoConfig
  BY DEF Init, Unused
<1>2. TypeOK
  <2>1. run \in [Attempts -> Runs]
    BY UnusedType DEF Init
  <2>2. config \in Configs
    BY DEF Init, Configs, NoConfig
  <2>3. holder \in [Asked -> Attempts \cup {None}] /\ said \in [Attempts -> Answers \cup {NoAnswer}]
    BY DEF Init
  <2>4. heard \in [Attempts -> BOOLEAN] /\ begun \in [Attempts -> Nat]
    BY DEF Init
  <2> QED  BY <2>1, <2>2, <2>3, <2>4 DEF Init, TypeOK
<1>3. CountInv
  <2>1. \A a \in Attempts : plan[a].calls \in Nat
    <3>1. plan \in Plans /\ MaxCalls \in Nat
      BY AssistantAssumption DEF Init, AssistantAssumption
    <3>2. ASSUME NEW a \in Attempts PROVE plan[a].calls \in Nat
      <4>1. plan[a].calls \in 0 .. MaxCalls
        BY <3>1, PlanTypes, AssistantAssumption
      <4> QED  BY <3>1, <4>1
    <3> QED  BY <3>2
  <2>2. ASSUME NEW a \in Attempts PROVE CountFor(a)
    <3>1. run[a].at = "unused" /\ run[a].n = 0 /\ 0 <= plan[a].calls
      BY <1>1, <2>1
    <3> QED  BY <3>1 DEF CountFor, Slot, Gate, Question
  <2> QED  BY <2>2 DEF CountInv
<1>4. SaidInv
  <2>1. \A a \in Attempts : said[a] = NoAnswer
    BY DEF Init
  <2> QED  BY <1>1, <2>1 DEF SaidInv, SaidFor, ConsentFor, Gate
<1>5. GrantInv
  BY <1>1 DEF Init, GrantInv, Granted, NoConfig
<1>6. BrokerInv
  BY DEF Init, BrokerInv, OpenIsAwaited
<1>7. StopInv
  BY DEF Init, StopInv, StopFor
<1>9. MissedInv
  BY <1>1 DEF MissedInv, MissedFor, Gate
<1> QED  BY <1>2, <1>3, <1>4, <1>5, <1>6, <1>7, <1>9 DEF IInv

\* Every step keeps the invariant.
LEMMA Inductive == AssistantAssumption /\ IInv /\ [Next]_vars => IInv'
<1> SUFFICES ASSUME AssistantAssumption, IInv, [Next]_vars PROVE IInv'
  OBVIOUS
<1>1. ASSUME NEW a \in Attempts, Acts(a) PROVE IInv'
  BY <1>1, TypeStep, CallsStep, GrantStep, BrokerStep, StopStep, MissedStep DEF IInv
<1>2. ASSUME NEW a \in Attempts, NEW answer \in Answers, Resolve(a, answer) PROVE IInv'
  BY <1>2, ResolveStep
<1>3. ASSUME NEW q \in Asked, Answer(q) PROVE IInv'
  BY <1>3, AnswerStep
<1>4. CASE Stop
  BY <1>4, StopsAll
<1>5. CASE Restart
  BY <1>5, RestartStep
<1>6. CASE UNCHANGED vars
  <2>1. UNCHANGED <<plan, config, status, persist, stop, run, pending, holder, said, granted, heard, begun,
                    missed, leaked, faults>>
    BY <1>6 DEF vars, session, broker, ghosts
  <2>2. TypeOK'
    BY <2>1 DEF IInv, TypeOK
  <2>3. CountInv' /\ SaidInv'
    BY <2>1, LocalKept DEF IInv, CountInv, SaidInv
  <2>4. GrantInv' /\ MissedInv'
    BY <2>1, NoneMoves DEF IInv, TypeOK
  <2>5. BrokerInv' /\ StopInv'
    BY <2>1 DEF IInv, BrokerInv, OpenIsAwaited, StopInv, StopFor
  <2> QED  BY <2>2, <2>3, <2>4, <2>5 DEF IInv
<1> QED  BY <1>1, <1>2, <1>3, <1>4, <1>5, <1>6 DEF Next, Acts

\* The invariant holds for any attempts, commands, rules and decisions.
THEOREM Invariant == Spec => []IInv
<1>1. Init => IInv
  BY InitInv, AssistantAssumption
<1>2. IInv /\ [Next]_vars => IInv'
  BY Inductive, AssistantAssumption
<1> QED  BY <1>1, <1>2, PTL DEF Spec

\* The state of the session is of the types it is declared with.
THEOREM TypeCorrect == Spec => []TypeOK
<1>1. IInv => TypeOK
  BY DEF IInv
<1> QED  BY <1>1, Invariant, PTL

\* A gated tool runs, and a decision is remembered, only with consent: the person
\* approved this call, or granted earlier what covers it (_gate_tool_call_for_approval).
THEOREM RunsWithConsent == Spec => []ConsentFirst
<1>1. IInv => ConsentFirst
  BY DEF IInv, SaidInv, ConsentFor, ConsentFirst
<1> QED  BY <1>1, Invariant, PTL

\* The decision the broker accepted is the one the call obeys, whenever the timer of
\* the wait fired: a call that a person refused does not run.
THEOREM DecisionsStand == Spec => []AnswerStands
<1>1. IInv => AnswerStands
  <2> SUFFICES ASSUME IInv, NEW a \in Attempts, said[a] # NoAnswer
               PROVE  /\ run[a].at = "decided" => run[a].future = said[a]
                      /\ said[a].action = "reject" => run[a].at \notin {"remember", "remembering", "run"}
    BY DEF AnswerStands
  <2>1. SaidFor(a)
    BY DEF IInv, SaidInv
  <2> QED  BY <2>1 DEF SaidFor, Approves
<1> QED  BY <1>1, Invariant, PTL

\* Every request the two brokers list has a call that waits on it, but for those
\* whose attempt ended while the request was being announced.
THEOREM RequestsAreAwaited == Spec => []OpenIsAwaited
<1>1. IInv => OpenIsAwaited
  BY DEF IInv, BrokerInv
<1> QED  BY <1>1, Invariant, PTL

\* After a stop that nothing undid, an attempt begins at most the one call it had
\* already chosen (stop_attempt, _await_with_abort).
THEOREM StopsArePrompt == Spec => []StopIsPrompt
<1>1. IInv => StopIsPrompt
  BY DEF IInv, StopInv, StopFor, StopIsPrompt
<1> QED  BY <1>1, Invariant, PTL

\* A remembered key or prefix is written over only by an attempt whose copy of the lists
\* could not show it (_remember_session_approval, update_session_config).
THEOREM GrantsStay == Spec => GrantsKept
<1>1. IInv /\ [Next]_vars => [\A g \in Memory(config) \ Memory(config') :
        \E a \in Attempts : run[a].at \in Holds /\ run'[a].at \notin Holds /\ g \in missed[a]]_vars
  <2> SUFFICES ASSUME IInv, Next, NEW g \in Memory(config) \ Memory(config')
               PROVE  \E a \in Attempts : run[a].at \in Holds /\ run'[a].at \notin Holds /\ g \in missed[a]
    OBVIOUS
  <2>1. config' # config
    OBVIOUS
  <2>2. PICK a \in Attempts : Acts(a)
    BY <2>1 DEF Next, Acts, Stop, Restart, Resolve, Answer, session
  <2>3. run[a].at \in Updating /\ config' = Patched(a) /\ GoesOn(a)
    BY <2>1, <2>2, Untouched, OnwardStep, AssistantAssumption DEF IInv
  <2>4. run[a].at \in Holds /\ run'[a].at \notin Holds
    BY <2>3 DEF GoesOn, Onward, Updating, Holds
  <2>5. g \in missed[a]
    <3>1. /\ Unseen(config, run[a].base) \subseteq missed[a]
          /\ run[a].at = "remembering" => Unseen(config, run[a].read) \subseteq missed[a]
      BY <2>3 DEF IInv, MissedInv, MissedFor, Updating, Gate
    <3>2. \/ g \in Unseen(config, run[a].base)
          \/ run[a].at = "remembering" /\ g \in Unseen(config, run[a].read)
      BY <2>3, PatchedConfig, AssistantAssumption DEF IInv, Updating
    <3> QED  BY <3>1, <3>2
  <2> QED  BY <2>4, <2>5
<1> QED  BY <1>1, Invariant, PTL DEF Spec, GrantsKept

=============================================================================
