------------------------------- MODULE MCCron -------------------------------
(* TLC instance of CronService: one job with every kind of schedule.       *)
EXTENDS CronService, TLC

\* A time in the future, a time already past when the job is added late, an
\* interval, an interval of zero, and a cron expression.
AllKinds == {[kind |-> "at", t |-> 1], [kind |-> "at", t |-> 2],
             [kind |-> "every", t |-> 0], [kind |-> "every", t |-> 1],
             [kind |-> "cron", t |-> 2]}
=============================================================================
