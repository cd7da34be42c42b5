--------------------------- MODULE CronScheduler ---------------------------
(***************************************************************************)
(* CronSchedulerChannel: one effective lane for boot-time and runtime      *)
(* schedules.  A registered task has a runtime object with a timer.  The   *)
(* callback of a timer starts fire(), which awaits the content provider    *)
(* and then the inbound handler; meanwhile the task may be replaced,       *)
(* removed, or the channel stopped.  So a runtime object can outlive its   *)
(* registration: objects are named by references, and one that nothing     *)
(* refers to any more is free to be allocated again.                       *)
(*                                                                         *)
(* A daily timer is one-shot, and re-armed when its fire() has settled; an *)
(* interval timer repeats until it is cleared.  Every task modelled is     *)
(* enabled: an approved one always is, and a task of the environment that  *)
(* is not has no timer until it is replaced.                               *)
(***************************************************************************)
EXTENDS Naturals

CONSTANTS
  TaskId,
  Payload,      \* channel, target, content and timing of a task, by hash
  Daily,        \* the payloads without interval_ms
  RuntimeRef,   \* references of CronTaskRuntime objects
  MaxFires      \* bound on the fires of one object that are in progress

ASSUME CronAssumption ==
  /\ Daily \subseteq Payload
  /\ MaxFires \in Nat \ {0}

VARIABLES
  phase,        \* "new", "started" or "stopped": serve() starts it only once
  runtimes,     \* task id -> reference of its registered runtime
  task,         \* the task a reference was allocated for
  armed,        \* references with a timer that is set
  resolving,    \* fires awaiting the content provider, by reference
  handling,     \* fires awaiting the inbound handler, by reference
  fired         \* tasks handed to the handler since the beginning

cronVars == <<phase, runtimes, task, armed, resolving, handling, fired>>

Task == [id: TaskId, payload: Payload]
IsDaily(ref) == task[ref].payload \in Daily

Registered == {runtimes[id] : id \in DOMAIN runtimes}
Busy(ref)  == resolving[ref] + handling[ref] > 0
Free(ref)  == ref \notin Registered /\ ref \notin armed /\ ~Busy(ref)

CronTypeOK ==
  /\ phase \in {"new", "started", "stopped"}
  /\ \E I \in SUBSET TaskId : runtimes \in [I -> RuntimeRef]
  /\ task \in [RuntimeRef -> Task]
  /\ armed \subseteq RuntimeRef
  /\ resolving \in [RuntimeRef -> 0..MaxFires]
  /\ handling \in [RuntimeRef -> 0..MaxFires]
  /\ fired \subseteq Task

Register(id, ref) == [i \in DOMAIN runtimes \cup {id} |-> IF i = id THEN ref ELSE runtimes[i]]
Unregister(id)    == [i \in DOMAIN runtimes \ {id} |-> runtimes[i]]
TimerOf(id)       == IF id \in DOMAIN runtimes THEN {runtimes[id]} ELSE {}

(* new CronSchedulerChannel({tasks}): a runtime per task, no timer yet.     *)
Registers(tasks) ==
  \E r \in [{t.id : t \in tasks} -> RuntimeRef] :
    /\ \A i, j \in DOMAIN r : r[i] = r[j] => i = j
    /\ runtimes = r
    /\ \A t \in tasks : task[r[t.id]] = t

CronInit ==
  /\ phase = "new"
  /\ task \in [RuntimeRef -> Task]
  /\ armed = {}
  /\ resolving = [ref \in RuntimeRef |-> 0]
  /\ handling = [ref \in RuntimeRef |-> 0]
  /\ fired = {}
  /\ \E tasks \in SUBSET Task :
       /\ \A t, u \in tasks : t.id = u.id => t = u      \* normalizeCronTasks
       /\ Registers(tasks)

Start ==
  /\ phase = "new"
  /\ phase' = "started"
  /\ armed' = armed \cup Registered
  /\ UNCHANGED <<runtimes, task, resolving, handling, fired>>

(* stop() reaches the timers of registered runtimes only.                   *)
Stop ==
  /\ phase = "started"
  /\ phase' = "stopped"
  /\ armed' = armed \ Registered
  /\ UNCHANGED <<runtimes, task, resolving, handling, fired>>

(* Defective: the runtime that is replaced keeps its timer.                 *)
UpsertKeepingTimer(t) ==
  \E ref \in RuntimeRef :
    /\ Free(ref)
    /\ runtimes' = Register(t.id, ref)
    /\ task' = [task EXCEPT ![ref] = t]
    /\ armed' = armed \cup (IF phase = "started" THEN {ref} ELSE {})
    /\ UNCHANGED <<phase, resolving, handling, fired>>

UpsertTask(t) ==
  \E ref \in RuntimeRef :
    /\ Free(ref)
    /\ runtimes' = Register(t.id, ref)
    /\ task' = [task EXCEPT ![ref] = t]
    /\ armed' = (armed \ TimerOf(t.id)) \cup (IF phase = "started" THEN {ref} ELSE {})
    /\ UNCHANGED <<phase, resolving, handling, fired>>

(* Defective: the timer is cleared, and the task stays in the map.          *)
RemoveTimerOnly(id) ==
  /\ armed' = armed \ TimerOf(id)
  /\ UNCHANGED <<phase, runtimes, task, resolving, handling, fired>>

RemoveTask(id) ==
  /\ runtimes' = Unregister(id)
  /\ armed' = armed \ TimerOf(id)
  /\ UNCHANGED <<phase, task, resolving, handling, fired>>

(* A timer goes off: fire() runs to its first await.                        *)
Fire(ref) ==
  /\ ref \in armed
  /\ resolving[ref] + handling[ref] < MaxFires
  /\ armed' = IF IsDaily(ref) THEN armed \ {ref} ELSE armed
  /\ resolving' = [resolving EXCEPT ![ref] = @ + 1]
  /\ UNCHANGED <<phase, runtimes, task, handling, fired>>

(* The content is there, be it an error text: onFire, then the handler.     *)
HandOver(ref) ==
  /\ resolving[ref] > 0
  /\ resolving' = [resolving EXCEPT ![ref] = @ - 1]
  /\ handling' = [handling EXCEPT ![ref] = @ + 1]
  /\ fired' = fired \cup {task[ref]}
  /\ UNCHANGED <<phase, runtimes, task, armed>>

(* Defective: the next day is never scheduled.                              *)
SettleForGood(ref) ==
  /\ handling[ref] > 0
  /\ handling' = [handling EXCEPT ![ref] = @ - 1]
  /\ UNCHANGED <<phase, runtimes, task, armed, resolving, fired>>

(* fire() settles; finally, a daily timer is set again if started.          *)
Settle(ref) ==
  /\ handling[ref] > 0
  /\ handling' = [handling EXCEPT ![ref] = @ - 1]
  /\ armed' = IF IsDaily(ref) /\ phase = "started" THEN armed \cup {ref} ELSE armed
  /\ UNCHANGED <<phase, runtimes, task, resolving, fired>>

Tick(ref) == Fire(ref) \/ HandOver(ref) \/ Settle(ref)

CronNext ==
  \/ Start \/ Stop
  \/ \E t \in Task : UpsertTask(t)
  \/ \E id \in TaskId : RemoveTask(id)
  \/ \E ref \in RuntimeRef : Tick(ref)

CronSpec == CronInit /\ [][CronNext]_cronVars

(* Timers go off, and what fire() awaits comes to an end: the provider makes
   a few HTTP requests, a delivery a bounded number of attempts, over
   connections the HTTP client times out; errors of either are caught
   (resolveContent, InboundRouter.start).                                   *)
CronFairness ==
  \A ref \in RuntimeRef :
    WF_cronVars(Fire(ref)) /\ WF_cronVars(HandOver(ref)) /\ WF_cronVars(Settle(ref))

FairCronSpec == CronSpec /\ CronFairness

-----------------------------------------------------------------------------
(* Properties.                                                              *)

(* A timer without a registered task is the timer of a daily task that was
   replaced or removed while it fired: stopping a runtime that is not firing
   ends it, and an interval never outlives its registration.                *)
OrphanTimersAreDaily == \A ref \in armed \ Registered : IsDaily(ref)

(* Each task of a started channel keeps its clock: its timer is set, or it
   is daily and its current fire will set it again.                         *)
RegisteredKeepTime ==
  phase = "started" => \A ref \in Registered : ref \in armed \/ (IsDaily(ref) /\ Busy(ref))

(* A daily runtime never fires twice at once, and has no second timer while
   it fires.                                                                *)
DailyFiresOnce ==
  \A ref \in RuntimeRef :
    IsDaily(ref) => resolving[ref] + handling[ref] <= (IF ref \in armed THEN 0 ELSE 1)

(* Before the start and after the stop no registered task has a timer, also
   none that was upserted then, or whose fire outlasted the stop.           *)
IdleLaneIsSilent == phase # "started" => armed \cap Registered = {}

(* Replacing, removing and stopping tasks while they fire leaves exactly the
   timers of the tasks that are there: none is lost, none is doubled, only a
   daily one survives its task, and a lane that is not started has none
   (cron_channel.ts: upsertTask, removeTask, stop, scheduleNextDaily).      *)
TimersFollowTasks ==
  OrphanTimersAreDaily /\ RegisteredKeepTime /\ DailyFiresOnce /\ IdleLaneIsSilent

(* A registered task fires again and again until it is replaced, removed or
   the channel is stopped.                                                  *)
RegisteredKeepFiring ==
  \A ref \in RuntimeRef :
    (phase = "started" /\ ref \in Registered)
      ~> (resolving[ref] > 0 \/ ref \notin Registered \/ phase = "stopped")

(* docs/IMPLEMENTATION_INSTRUCTIONS.md, Pending behavior: a schedule whose
   delete or update was approved is unregistered or replaced; no timer goes
   on for it.                                                               *)
OnlyRegisteredTimers == armed \subseteq Registered
=============================================================================
