-------------------------- MODULE MCCronScheduler --------------------------
(* CronScheduler for TLC: a schedule is due every minute or at the second  *)
(* one.                                                                    *)
EXTENDS CronScheduler

MCSchedules == {{1, 2}, {2}}
============================================================================
