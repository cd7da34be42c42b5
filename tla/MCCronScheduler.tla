-------------------------- MODULE MCCronScheduler --------------------------
(***************************************************************************)
(* One task, daily or by interval, and a reference for its registered      *)
(* runtime next to one that outlives its registration.                     *)
(***************************************************************************)
EXTENDS CronScheduler, TLC
=============================================================================
