--------------------------- MODULE MCCronScheduler ---------------------------
(* CronScheduler for TLC: a cron task and a one-shot. *)
EXTENDS CronScheduler

=============================================================================
