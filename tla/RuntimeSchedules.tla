-------------------------- MODULE RuntimeSchedules --------------------------
(***************************************************************************)
(* RuntimeScheduleManager on top of the cron lane: schedule commands wait  *)
(* for the owner, an approved one changes the store and the lane at once   *)
(* and then writes the store to its file, without a lock and in place.     *)
(* The process may crash between any two steps; it comes back with what    *)
(* the file holds.                                                         *)
(*                                                                         *)
(* The lane is shared with the tasks that the environment configures: they *)
(* are registered at each start, in no store, and waited for by no owner.  *)
(*                                                                         *)
(* A schedule is its status and its payload.  Commands that are over are   *)
(* used again: their ids are fresh UUIDs in the code.                      *)
(***************************************************************************)
EXTENDS CronScheduler, FiniteSets

CONSTANTS
  Torn,             \* content of a file truncated, or written by two at once
  ScheduleCommand,  \* ids of schedule_create, _update and _delete commands
  Asked,            \* bound on the tasks that requests propose or find
  StoreMayFail,     \* may writing the file fail?
  EnvTasks          \* cronSchedulesFromEnv(), the same at every start

ASSUME ScheduleAssumption == StoreMayFail \in BOOLEAN /\ Asked \subseteq Task

(* normalizeCronTasks() throws on two tasks of the environment with one id.  *)
ASSUME EnvAssumption ==
  /\ EnvTasks \subseteq Task
  /\ \A t, u \in EnvTasks : t.id = u.id => t = u

VARIABLES
  up,           \* is the process running?
  schedules,    \* id -> [status, payload]
  pending,      \* command -> the operation that waits for the owner
  lapsed,       \* pending commands whose approval timeout is over
  bySchedule,   \* pendingBySchedule: id -> command
  writers,      \* persist() calls under way, by the command that caused them
  file,         \* runtime-schedules.json: a snapshot of schedules, or Torn
  approved,     \* tasks an owner approved, ever
  deleted,      \* ids whose deletion was reported done and not approved since
  decided       \* ids an approval registered or removed since the process started

storeVars ==
  <<up, schedules, pending, lapsed, bySchedule, writers, file, approved, deleted, decided>>
scheduleVars == <<cronVars, storeVars>>

Operation == {"create", "update", "delete"}
Schedule == [status: {"active", "deleted", "rejected"}, payload: Payload]
Store == UNION {[I -> Schedule] : I \in SUBSET TaskId}

Active(s) == {id \in DOMAIN s : s[id].status = "active"}
TaskOf(s, id) == [id |-> id, payload |-> s[id].payload]

(* activeCronTasks(), and its defective form without the filter.            *)
AllTasks(s)        == {TaskOf(s, id) : id \in DOMAIN s}
ActiveCronTasks(s) == {TaskOf(s, id) : id \in Active(s)}

EnvIds == {t.id : t \in EnvTasks}

(* What serve() gives the lane, [...cronTasks, ...activeCronTasks()], and its
   defective form without the tasks of the environment.                     *)
RestoredTasks(s) == ActiveCronTasks(s)
BootTasks(s) == EnvTasks \cup ActiveCronTasks(s)

With(f, x, y)  == [z \in DOMAIN f \cup {x} |-> IF z = x THEN y ELSE f[z]]
Without(f, S)  == [z \in DOMAIN f \ S |-> f[z]]

ScheduleInit ==
  /\ CronInit /\ Registers(EnvTasks)
  /\ up = TRUE
  /\ schedules = << >> /\ pending = << >> /\ lapsed = {} /\ bySchedule = << >>
  /\ writers = << >> /\ file = << >>
  /\ approved = {} /\ deleted = {} /\ decided = {}

-----------------------------------------------------------------------------
(* persist(), up to its first await: a snapshot is taken, the directory is
   being created.  ack names the schedule whose deletion the caller reports. *)
Writer(snapshot, ack) ==
  [snapshot |-> snapshot, ack |-> ack, stage |-> "mkdir", alone |-> TRUE]

(* rejectPending() for the commands in refused: the store keeps a trace of a
   rejected create, and of nothing else.  Defective: of every rejection.    *)
CreatesOfAll(refused) == refused
Creates(refused) == {c \in refused : pending[c].op = "create"}

Rejections(refused) ==
  LET trace == Creates(refused)
  IN [id \in DOMAIN schedules \cup {pending[c].id : c \in trace} |->
        IF \E c \in trace : pending[c].id = id
        THEN [ status |-> "rejected",
               payload |-> pending[CHOOSE c \in trace : pending[c].id = id].payload ]
        ELSE schedules[id]]

(* What is left of the maps without those commands.  persistSoon() is called
   for each trace; the snapshots of several differ in each other's trace
   only, and are taken as the last one.                                     *)
PendingWithout(refused)    == Without(pending, refused)
ByScheduleWithout(refused) == Without(bySchedule, {pending[c].id : c \in refused})
WritersAfter(refused) ==
  [c \in DOMAIN writers \cup Creates(refused) |->
     IF c \in Creates(refused) THEN Writer(Rejections(refused), "none") ELSE writers[c]]

(* The approval timeout of a pending operation passes.                      *)
Lapse(c) ==
  /\ up /\ c \in DOMAIN pending \ lapsed
  /\ lapsed' = lapsed \cup {c}
  /\ UNCHANGED <<cronVars, up, schedules, pending, bySchedule, writers, file,
                 approved, deleted, decided>>

(* list(), hasPending() and the like: pruneExpiredPending().                *)
Prune ==
  /\ up /\ lapsed # {}
  /\ schedules' = Rejections(lapsed)
  /\ pending' = PendingWithout(lapsed)
  /\ bySchedule' = ByScheduleWithout(lapsed)
  /\ writers' = WritersAfter(lapsed)
  /\ lapsed' = {}
  /\ UNCHANGED <<cronVars, up, file, approved, deleted, decided>>

(* rejectPending() by a human, which does not prune.                        *)
Reject(c) ==
  /\ up /\ c \in DOMAIN pending
  /\ schedules' = Rejections({c})
  /\ pending' = PendingWithout({c})
  /\ bySchedule' = ByScheduleWithout({c})
  /\ writers' = WritersAfter({c})
  /\ lapsed' = lapsed \ {c}
  /\ UNCHANGED <<cronVars, up, file, approved, deleted, decided>>

(* buildPending(): defective without, and as it is with the conflict check. *)
AcceptableAnyway(op, id, held) ==
  IF op = "create" THEN id \notin Active(schedules) ELSE id \in Active(schedules)
Acceptable(op, id, held) ==
  /\ id \notin held
  /\ IF op = "create" THEN id \notin Active(schedules) ELSE id \in Active(schedules)

(* preparePending().  A delete proposes the payload it found.               *)
Prepare(c, op, id, payload) ==
  LET held == ByScheduleWithout(lapsed)
  IN /\ up
     /\ c \notin DOMAIN pending \cup DOMAIN writers
     /\ op = "delete" => id \in DOMAIN schedules /\ payload = schedules[id].payload
     /\ Acceptable(op, id, DOMAIN held)
     /\ schedules' = Rejections(lapsed)
     /\ writers' = WritersAfter(lapsed)
     /\ pending' = With(PendingWithout(lapsed), c, [op |-> op, id |-> id, payload |-> payload])
     /\ bySchedule' = With(held, id, c)
     /\ lapsed' = {}
     /\ UNCHANGED <<cronVars, up, file, approved, deleted, decided>>

(* The record an approval stores.  Defective: a spread of the proposed one.  *)
OutcomeAsProposed(op) == [status |-> "pending", payload |-> op.payload]
Outcome(op) ==
  [ status |-> IF op.op = "delete" THEN "deleted" ELSE "active",
    payload |-> op.payload ]

(* approvePending(), up to the await of persist(): the tool of an approved
   command runs.  If the operation lapsed meanwhile, it only prunes.        *)
Approve(c) ==
  LET op == pending[c]
  IN /\ up /\ c \in DOMAIN pending \ lapsed
     /\ schedules' = With(Rejections(lapsed), op.id, Outcome(op))
     /\ pending' = PendingWithout(lapsed \cup {c})
     /\ bySchedule' = ByScheduleWithout(lapsed \cup {c})
     /\ writers' = With(WritersAfter(lapsed), c,
                        Writer(schedules', IF op.op = "delete" THEN op.id ELSE "none"))
     /\ lapsed' = {}
     /\ decided' = decided \cup {op.id}
     /\ IF op.op = "delete"
        THEN /\ RemoveTask(op.id)
             /\ UNCHANGED <<approved, deleted>>
        ELSE /\ UpsertTask(TaskOf(schedules', op.id))
             /\ approved' = approved \cup {TaskOf(schedules', op.id)}
             /\ deleted' = deleted \ {op.id}
     /\ UNCHANGED <<up, file>>

-----------------------------------------------------------------------------
(* persist(), after its awaits.  writeFile() truncates, then writes.        *)

BeginWrite(c) ==
  LET others == {d \in DOMAIN writers \ {c} : writers[d].stage = "write"}
  IN /\ c \in DOMAIN writers /\ writers[c].stage = "mkdir"
     /\ writers' = [d \in DOMAIN writers |->
          CASE d = c -> [writers[c] EXCEPT !.stage = "write", !.alone = (others = {})]
            [] d \in others -> [writers[d] EXCEPT !.alone = FALSE]
            [] OTHER -> writers[d]]
     /\ file' = Torn
     /\ UNCHANGED <<cronVars, up, schedules, pending, lapsed, bySchedule, approved, deleted,
                    decided>>

EndWrite(c) ==
  /\ c \in DOMAIN writers /\ writers[c].stage = "write"
  /\ writers' = Without(writers, {c})
  /\ file' \in {writers[c].snapshot} \cup (IF writers[c].alone THEN {} ELSE {Torn})
  /\ deleted' = deleted \cup ({writers[c].ack} \cap (DOMAIN schedules \ Active(schedules)))
  /\ UNCHANGED <<cronVars, up, schedules, pending, lapsed, bySchedule, approved, decided>>

(* mkdir() or writeFile() fails; the tool reports a failure if one waits.   *)
FailWrite(c) ==
  /\ StoreMayFail
  /\ c \in DOMAIN writers
  /\ writers' = Without(writers, {c})
  /\ UNCHANGED <<cronVars, up, schedules, pending, lapsed, bySchedule, file,
                 approved, deleted, decided>>

Crash ==
  /\ up
  /\ up' = FALSE
  /\ schedules' = << >> /\ pending' = << >> /\ lapsed' = {}
  /\ bySchedule' = << >> /\ writers' = << >> /\ decided' = {}
  /\ phase' = "new" /\ runtimes' = << >> /\ armed' = {}
  /\ resolving' = [ref \in RuntimeRef |-> 0] /\ handling' = [ref \in RuntimeRef |-> 0]
  /\ UNCHANGED <<task, fired, file, approved, deleted>>

(* open() throws if the file does not parse, and the constructor of the lane
   on a schedule with the id of a task of the environment; else the lane gets
   the tasks of both.                                                       *)
Boot ==
  /\ ~up /\ file # Torn /\ Active(file) \cap EnvIds = {}
  /\ up' = TRUE
  /\ schedules' = file
  /\ \E ref \in [{t.id : t \in BootTasks(file)} -> RuntimeRef] :
       /\ \A i, j \in DOMAIN ref : ref[i] = ref[j] => i = j
       /\ runtimes' = ref
       /\ task' = [r \in RuntimeRef |->
                     IF \E t \in BootTasks(file) : ref[t.id] = r
                     THEN CHOOSE t \in BootTasks(file) : ref[t.id] = r
                     ELSE task[r]]
  /\ UNCHANGED <<phase, armed, resolving, handling, fired, pending, lapsed,
                 bySchedule, writers, file, approved, deleted, decided>>

Lane == /\ up
        /\ Start \/ \E ref \in RuntimeRef : Tick(ref)
        /\ UNCHANGED storeVars

ScheduleNext ==
  \/ \E c \in ScheduleCommand :
       \/ Lapse(c) \/ Reject(c) \/ Approve(c)
       \/ BeginWrite(c) \/ EndWrite(c) \/ FailWrite(c)
       \/ \E op \in Operation, t \in Asked : Prepare(c, op, t.id, t.payload)
  \/ Prune \/ Crash \/ Boot \/ Lane

ScheduleSpec == ScheduleInit /\ [][ScheduleNext]_scheduleVars

-----------------------------------------------------------------------------
(* Properties.                                                              *)

ScheduleTypeOK ==
  /\ up \in BOOLEAN
  /\ schedules \in Store
  /\ lapsed \subseteq DOMAIN pending /\ DOMAIN pending \subseteq ScheduleCommand
  /\ \A c \in DOMAIN pending :
       pending[c] \in [op: Operation, id: TaskId, payload: Payload]
  /\ DOMAIN writers \subseteq ScheduleCommand
  /\ \A c \in DOMAIN writers :
       writers[c] \in [ snapshot: Store, ack: TaskId \cup {"none"},
                       stage: {"mkdir", "write"}, alone: BOOLEAN ]
  /\ file \in Store \cup {Torn}
  /\ approved \subseteq Task /\ deleted \subseteq TaskId /\ decided \subseteq TaskId

(* README.md:192: pending, rejected and timed-out requests do not run.  What
   fires, and what a timer is set to fire, an owner approved for that id or
   the environment configured, also after crashes at any moment and restarts
   from what the file holds.                                                *)
OnlyApprovedFires ==
  fired \cup {task[ref] : ref \in armed} \subseteq approved \cup EnvTasks

(* At most one operation is pending on a schedule, and the premise it was
   accepted on still holds when the owner decides about it.                 *)
PendingPremiseHolds ==
  /\ DOMAIN bySchedule = {pending[c].id : c \in DOMAIN pending}
  /\ \A c \in DOMAIN pending :
       /\ bySchedule[pending[c].id] = c
       /\ pending[c].op = "create" <=> pending[c].id \notin Active(schedules)

(* Store and lane agree: the registered tasks are the active schedules, with
   the payloads their owner last approved, and those tasks of the environment
   that no approval has replaced or removed since the start.                *)
LaneMatchesStore ==
  up => {task[runtimes[id]] : id \in DOMAIN runtimes}
          = ActiveCronTasks(schedules) \cup {t \in EnvTasks : t.id \notin decided}

(* docs/IMPLEMENTATION_INSTRUCTIONS.md:589, :592: a refused, lapsed or merely
   requested operation leaves the old schedule active, with its payload; an
   active schedule changes only by the approval of an operation on it.      *)
ActiveChangesByApproval ==
  [][up /\ up' => \A id \in Active(schedules) :
       schedules'[id] = schedules[id] \/ \E c \in DOMAIN pending \ lapsed :
          pending[c].id = id /\ c \in DOMAIN writers' /\ c \notin DOMAIN pending'
          /\ pending[c].op # "create" ]_scheduleVars

(* docs/IMPLEMENTATION_INSTRUCTIONS.md:591: an approved delete leaves the
   schedule deleted and unregistered.                                       *)
DeletedStaysDeleted == up => deleted \cap DOMAIN runtimes = {}
=============================================================================
