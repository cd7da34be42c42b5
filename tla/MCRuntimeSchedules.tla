------------------------- MODULE MCRuntimeSchedules -------------------------
(***************************************************************************)
(* Two commands at a time on two schedules: the brief, daily, and the       *)
(* digest, by interval, for which the environment configures a daily task. *)
(* Without EnvTasks: on one schedule, daily or by interval.                *)
(***************************************************************************)
EXTENDS RuntimeSchedules, TLC

CONSTANTS brief, digest, daily, interval

AskedTasks == {[id |-> brief, payload |-> daily], [id |-> digest, payload |-> interval]}
TasksOfEnv == {[id |-> digest, payload |-> daily]}

(* States alike up to the names of runtime objects and up to what neither an
   action nor a property that is checked with this view can tell apart:
   deletions reported and fires approved (which stay approved).             *)
Clock(ref) == <<task[ref], ref \in armed, resolving[ref], handling[ref]>>
Outlived   == {ref \in RuntimeRef : ref \notin Registered /\ ~Free(ref)}
Alike(ref) == {r \in Outlived : Clock(r) = Clock(ref)}

ScheduleView ==
  << phase, [id \in DOMAIN runtimes |-> Clock(runtimes[id])],
     {<<Clock(ref), Cardinality(Alike(ref))>> : ref \in Outlived},
     fired \ (approved \cup EnvTasks), approved, decided \cap EnvIds,
     up, schedules, pending, lapsed, bySchedule, file,
     [c \in DOMAIN writers |-> <<writers[c].snapshot, writers[c].stage, writers[c].alone>>] >>

CommandSymmetry == Permutations(ScheduleCommand)
=============================================================================
