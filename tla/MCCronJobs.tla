------------------------------- MODULE MCCronJobs -------------------------------
(* Bounded instances of CronJobs for TLC. *)
EXTENDS CronJobs

At(due, once) == [on |-> TRUE, kind |-> "at", due |-> due, once |-> once, cap |-> 1]
Cron == [on |-> TRUE, kind |-> "cron", due |-> 0, once |-> FALSE, cap |-> 1]

\* A reminder that deletes itself, one that is kept, and a recurring job.
MCNewJobs == {At(1, TRUE), At(1, FALSE), Cron}

\* Another name, another instant, another bound, enabled.
MCEdits == {<<>>, [due |-> 2], [cap |-> 2], [on |-> TRUE]}

NameOnly == {<<>>}
JustCron == {Cron}
===============================================================================
