------------------------ MODULE CronSchedulerProofs ------------------------
(***************************************************************************)
(* The timers follow the tasks, for every set of tasks and of runtime      *)
(* objects.  TimersFollowTasks is not inductive: a start would arm objects *)
(* that fire, and replacing a task would clear the timer of another one    *)
(* that shares its object.  CronInv says that neither can be.              *)
(***************************************************************************)
EXTENDS CronScheduler, TLAPS

(* No two tasks share a runtime object, nothing happens before the start,
   and the fires of an object stay within the bound. *)
Apart    == \A i, j \in DOMAIN runtimes : runtimes[i] = runtimes[j] => i = j
Untimed  == phase = "new" => armed = {} /\ \A ref \in RuntimeRef : ~Busy(ref)
Bounded  == \A ref \in RuntimeRef : resolving[ref] + handling[ref] <= MaxFires

CronInv == CronTypeOK /\ TimersFollowTasks /\ Apart /\ Untimed /\ Bounded

USE CronAssumption

(* What registering and unregistering do to the set of registered objects. *)
LEMMA RegisterAdds ==
  ASSUME CronTypeOK, Apart, NEW id \in TaskId, NEW ref \in RuntimeRef, ref \notin Registered,
         runtimes' = Register(id, ref)
  PROVE  /\ DOMAIN runtimes' \subseteq TaskId /\ runtimes' \in [DOMAIN runtimes' -> RuntimeRef]
         /\ Registered' = (Registered \ TimerOf(id)) \cup {ref}
         /\ Apart'
<1>1. /\ DOMAIN runtimes' = DOMAIN runtimes \cup {id}
      /\ \A i \in DOMAIN runtimes' : runtimes'[i] = IF i = id THEN ref ELSE runtimes[i]
      /\ DOMAIN runtimes \subseteq TaskId /\ runtimes \in [DOMAIN runtimes -> RuntimeRef]
      /\ runtimes' = [i \in DOMAIN runtimes' |-> runtimes'[i]]
  BY DEF Register, CronTypeOK
<1>2. Registered' = (Registered \ TimerOf(id)) \cup {ref}
  BY <1>1 DEF Registered, TimerOf, Apart
<1>3. Apart'
  BY <1>1 DEF Registered, Apart
<1>4. QED
  BY <1>1, <1>2, <1>3

LEMMA UnregisterTakes ==
  ASSUME CronTypeOK, Apart, NEW id \in TaskId, runtimes' = Unregister(id)
  PROVE  /\ DOMAIN runtimes' \subseteq TaskId /\ runtimes' \in [DOMAIN runtimes' -> RuntimeRef]
         /\ Registered' = Registered \ TimerOf(id)
         /\ Apart'
<1>1. /\ DOMAIN runtimes' = DOMAIN runtimes \ {id}
      /\ \A i \in DOMAIN runtimes' : runtimes'[i] = runtimes[i]
      /\ DOMAIN runtimes \subseteq TaskId /\ runtimes \in [DOMAIN runtimes -> RuntimeRef]
      /\ runtimes' = [i \in DOMAIN runtimes' |-> runtimes'[i]]
  BY DEF Unregister, CronTypeOK
<1>2. Registered' = Registered \ TimerOf(id)
  BY <1>1 DEF Registered, TimerOf, Apart
<1>3. QED
  BY <1>1, <1>2 DEF Apart

LEMMA InitHolds == CronInit => CronInv
<1> SUFFICES ASSUME CronInit PROVE CronInv
  OBVIOUS
<1>1. PICK tasks \in SUBSET Task : Registers(tasks)
  BY DEF CronInit
<1>2. PICK r \in [{t.id : t \in tasks} -> RuntimeRef] :
        runtimes = r /\ \A i, j \in DOMAIN r : r[i] = r[j] => i = j
  BY <1>1 DEF Registers
<1>3. {t.id : t \in tasks} \subseteq TaskId
  BY <1>1 DEF Task
<1>4. CronTypeOK
  <2>1. \E I \in SUBSET TaskId : runtimes \in [I -> RuntimeRef]
    BY <1>2, <1>3
  <2>2. /\ resolving \in [RuntimeRef -> 0..MaxFires]
        /\ handling \in [RuntimeRef -> 0..MaxFires]
    BY DEF CronInit
  <2>3. QED
    BY <2>1, <2>2 DEF CronInit, CronTypeOK
<1>5. Apart
  BY <1>2 DEF Apart
<1>6. Untimed /\ Bounded
  BY DEF CronInit, Untimed, Bounded, Busy
<1>7. TimersFollowTasks
  BY DEF CronInit, TimersFollowTasks, OrphanTimersAreDaily, RegisteredKeepTime, DailyFiresOnce,
         IdleLaneIsSilent
<1>8. QED
  BY <1>4, <1>5, <1>6, <1>7 DEF CronInv

(* Start and stop leave the tasks alone. *)
LEMMA StartStopKeep ==
  ASSUME CronInv, Start \/ Stop PROVE CronInv'
<1>1. Registered \subseteq RuntimeRef
  BY DEF CronInv, CronTypeOK, Registered
<1>2. Registered' = Registered /\ \A ref : IsDaily(ref)' = IsDaily(ref) /\ Busy(ref)' = Busy(ref)
  BY DEF Start, Stop, Registered, IsDaily, Busy
<1>3. CronTypeOK'
  BY <1>1 DEF CronInv, CronTypeOK, Start, Stop
<1>4. Apart' /\ Bounded' /\ Untimed'
  BY DEF CronInv, Apart, Bounded, Untimed, Start, Stop
<1>5. OrphanTimersAreDaily'
  BY <1>2 DEF CronInv, TimersFollowTasks, OrphanTimersAreDaily, Start, Stop
<1>6. RegisteredKeepTime'
  BY <1>2 DEF CronInv, RegisteredKeepTime, Start, Stop
<1>7. DailyFiresOnce'
  <2>1. CASE Start
    <3>1. \A ref \in RuntimeRef : resolving[ref] + handling[ref] = 0
      BY <2>1 DEF Start, CronInv, CronTypeOK, Untimed, Busy
    <3>2. QED
      BY <2>1, <3>1 DEF Start, DailyFiresOnce
  <2>2. CASE Stop
    BY <2>2, <1>2 DEF Stop, CronInv, CronTypeOK, TimersFollowTasks, DailyFiresOnce
  <2>3. QED
    BY <2>1, <2>2
<1>8. IdleLaneIsSilent'
  BY <1>2 DEF IdleLaneIsSilent, Start, Stop
<1>9. QED
  BY <1>3, <1>4, <1>5, <1>6, <1>7, <1>8 DEF CronInv, TimersFollowTasks

(* A task takes an object nothing refers to, and its old one loses the timer. *)
LEMMA UpsertKeeps ==
  ASSUME CronInv, NEW t \in Task, UpsertTask(t) PROVE CronInv'
<1>1. PICK ref \in RuntimeRef :
        /\ Free(ref)
        /\ runtimes' = Register(t.id, ref)
        /\ task' = [task EXCEPT ![ref] = t]
        /\ armed' = (armed \ TimerOf(t.id)) \cup (IF phase = "started" THEN {ref} ELSE {})
        /\ UNCHANGED <<phase, resolving, handling, fired>>
  BY DEF UpsertTask
<1>2. t.id \in TaskId
  BY DEF Task
<1>3. /\ DOMAIN runtimes' \subseteq TaskId /\ runtimes' \in [DOMAIN runtimes' -> RuntimeRef]
      /\ Registered' = (Registered \ TimerOf(t.id)) \cup {ref} /\ Apart'
  BY <1>1, <1>2, RegisterAdds DEF CronInv, Free
<1>4. /\ \A r \in RuntimeRef \ {ref} : IsDaily(r)' = IsDaily(r)
      /\ \A r \in RuntimeRef : Busy(r)' = Busy(r)
  BY <1>1 DEF IsDaily, Busy, CronInv, CronTypeOK
<1>5. CronTypeOK'
  BY <1>1, <1>3 DEF CronInv, CronTypeOK
<1>6. Bounded' /\ Untimed'
  BY <1>1 DEF CronInv, Bounded, Untimed, Busy
<1>7. OrphanTimersAreDaily'
  <2> SUFFICES ASSUME NEW r \in armed' \ Registered' PROVE IsDaily(r)'
    BY DEF OrphanTimersAreDaily
  <2>1. r \in armed \ Registered /\ r # ref /\ r \in RuntimeRef
    BY <1>1, <1>3 DEF CronInv, CronTypeOK
  <2>2. QED
    BY <2>1, <1>4 DEF CronInv, TimersFollowTasks, OrphanTimersAreDaily
<1>8. RegisteredKeepTime'
  <2> SUFFICES ASSUME phase' = "started", NEW r \in Registered'
               PROVE r \in armed' \/ (IsDaily(r)' /\ Busy(r)')
    BY DEF RegisteredKeepTime
  <2>1. r = ref => r \in armed'
    BY <1>1
  <2>2. r # ref => r \in Registered \ TimerOf(t.id) /\ r \in RuntimeRef
    BY <1>3 DEF CronInv, CronTypeOK, Registered
  <2>3. QED
    BY <1>1, <1>4, <2>1, <2>2 DEF CronInv, TimersFollowTasks, RegisteredKeepTime
<1>9. DailyFiresOnce'
  <2> SUFFICES ASSUME NEW r \in RuntimeRef, IsDaily(r)'
               PROVE resolving[r] + handling[r] <= (IF r \in armed' THEN 0 ELSE 1)
    BY <1>1 DEF DailyFiresOnce
  <2>1. CASE r = ref
    BY <2>1, <1>1 DEF Free, Busy, CronInv, CronTypeOK
  <2>2. CASE r # ref
    BY <2>2, <1>1, <1>4 DEF CronInv, CronTypeOK, TimersFollowTasks, DailyFiresOnce
  <2>3. QED
    BY <2>1, <2>2
<1>10. IdleLaneIsSilent'
  BY <1>1, <1>3 DEF CronInv, TimersFollowTasks, IdleLaneIsSilent, Free
<1>11. QED
  BY <1>3, <1>5, <1>6, <1>7, <1>8, <1>9, <1>10 DEF CronInv, TimersFollowTasks

LEMMA RemoveKeeps ==
  ASSUME CronInv, NEW id \in TaskId, RemoveTask(id) PROVE CronInv'
<1>1. /\ DOMAIN runtimes' \subseteq TaskId /\ runtimes' \in [DOMAIN runtimes' -> RuntimeRef]
      /\ Registered' = Registered \ TimerOf(id) /\ Apart'
  BY UnregisterTakes DEF CronInv, RemoveTask
<1>2. \A r : IsDaily(r)' = IsDaily(r) /\ Busy(r)' = Busy(r)
  BY DEF RemoveTask, IsDaily, Busy
<1>3. CronTypeOK'
  BY <1>1 DEF CronInv, CronTypeOK, RemoveTask
<1>4. Bounded' /\ Untimed'
  BY <1>2 DEF CronInv, Bounded, Untimed, RemoveTask
<1>5. OrphanTimersAreDaily' /\ RegisteredKeepTime'
  BY <1>1, <1>2 DEF CronInv, TimersFollowTasks, OrphanTimersAreDaily, RegisteredKeepTime, RemoveTask
<1>6. DailyFiresOnce'
  BY <1>2 DEF CronInv, CronTypeOK, TimersFollowTasks, DailyFiresOnce, RemoveTask
<1>7. IdleLaneIsSilent'
  BY <1>1 DEF CronInv, TimersFollowTasks, IdleLaneIsSilent, RemoveTask
<1>8. QED
  BY <1>1, <1>3, <1>4, <1>5, <1>6, <1>7 DEF CronInv, TimersFollowTasks

(* One object goes off, hands over or settles; a daily one has no timer
   from the first to the last of the three. *)
LEMMA TickKeeps ==
  ASSUME CronInv, NEW ref \in RuntimeRef, Tick(ref) PROVE CronInv'
<1>1. UNCHANGED <<phase, runtimes, task>> /\ Registered' = Registered /\ Apart'
  BY DEF Tick, Fire, HandOver, Settle, Registered, CronInv, Apart
<1>2. \A r : IsDaily(r)' = IsDaily(r)
  BY <1>1 DEF IsDaily
<1>3. /\ resolving \in [RuntimeRef -> Nat] /\ handling \in [RuntimeRef -> Nat]
      /\ resolving' \in [RuntimeRef -> Nat] /\ handling' \in [RuntimeRef -> Nat]
      /\ \A r \in RuntimeRef \ {ref} : resolving'[r] = resolving[r] /\ handling'[r] = handling[r]
                                       /\ (r \in armed' <=> r \in armed)
      /\ phase # "new"
  BY DEF Tick, Fire, HandOver, Settle, CronInv, CronTypeOK, Untimed, Busy
<1>4. \/ /\ ref \in armed /\ resolving'[ref] + handling'[ref] = resolving[ref] + handling[ref] + 1
         /\ (ref \in armed' <=> ~IsDaily(ref)) /\ resolving[ref] + handling[ref] < MaxFires
      \/ /\ resolving'[ref] + handling'[ref] = resolving[ref] + handling[ref]
         /\ armed' = armed /\ handling'[ref] > 0
      \/ /\ resolving'[ref] + handling'[ref] = resolving[ref] + handling[ref] - 1
         /\ (ref \in armed' <=> ref \in armed \/ (IsDaily(ref) /\ phase = "started"))
         /\ resolving[ref] + handling[ref] > 0
  BY <1>3 DEF Tick, Fire, HandOver, Settle
<1>5. Bounded'
  BY <1>3, <1>4 DEF CronInv, Bounded
<1>6. CronTypeOK'
  <2>1. \A r \in RuntimeRef : resolving'[r] \in 0..MaxFires /\ handling'[r] \in 0..MaxFires
    BY <1>3, <1>5 DEF Bounded
  <2>2. armed' \subseteq RuntimeRef /\ fired' \subseteq Task
    BY DEF Tick, Fire, HandOver, Settle, CronInv, CronTypeOK
  <2>3. QED
    BY <1>1, <1>3, <2>1, <2>2 DEF CronInv, CronTypeOK
<1>7. Untimed'
  BY <1>1, <1>3 DEF Untimed
<1>8. OrphanTimersAreDaily'
  <2> SUFFICES ASSUME NEW r \in armed' \ Registered PROVE IsDaily(r)
    BY <1>1, <1>2 DEF OrphanTimersAreDaily
  <2>1. r \in armed \/ (r = ref /\ IsDaily(ref))
    BY <1>3, <1>4, <1>6 DEF CronTypeOK
  <2>2. QED
    BY <2>1 DEF CronInv, TimersFollowTasks, OrphanTimersAreDaily
<1>9. RegisteredKeepTime'
  <2> SUFFICES ASSUME phase = "started", NEW r \in Registered, r \in RuntimeRef
               PROVE r \in armed' \/ (IsDaily(r) /\ resolving'[r] + handling'[r] > 0)
    BY <1>1, <1>2 DEF RegisteredKeepTime, Busy, CronInv, CronTypeOK, Registered
  <2>1. r \in armed \/ (IsDaily(r) /\ resolving[r] + handling[r] > 0)
    BY DEF CronInv, TimersFollowTasks, RegisteredKeepTime, Busy
  <2>2. QED
    BY <1>3, <1>4, <2>1
<1>10. DailyFiresOnce'
  BY <1>2, <1>3, <1>4 DEF CronInv, TimersFollowTasks, DailyFiresOnce
<1>11. IdleLaneIsSilent'
  BY <1>1 DEF CronInv, TimersFollowTasks, IdleLaneIsSilent, Tick, Fire, HandOver, Settle
<1>12. QED
  BY <1>1, <1>5, <1>6, <1>7, <1>8, <1>9, <1>10, <1>11 DEF CronInv, TimersFollowTasks

LEMMA StepKeeps == CronInv /\ [CronNext]_cronVars => CronInv'
<1> SUFFICES ASSUME CronInv, [CronNext]_cronVars PROVE CronInv'
  OBVIOUS
<1>1. CASE UNCHANGED cronVars
  BY <1>1 DEF cronVars, CronInv, CronTypeOK, TimersFollowTasks, OrphanTimersAreDaily,
              RegisteredKeepTime, DailyFiresOnce, IdleLaneIsSilent, Apart, Untimed, Bounded,
              Registered, Busy, IsDaily
<1>2. CASE CronNext
  BY <1>2, StartStopKeep, UpsertKeeps, RemoveKeeps, TickKeeps DEF CronNext
<1>3. QED
  BY <1>1, <1>2

(* The invariant holds in every reachable state of the lane (cron_channel.ts). *)
THEOREM CronInvariant == CronSpec => []CronInv
BY InitHolds, StepKeeps, PTL DEF CronSpec

(* Replacing, removing, starting, stopping and firing in every order leave
   the tasks of a started channel exactly their timers (cron_channel.ts:
   upsertTask, removeTask, scheduleNextDaily). *)
THEOREM TimersFollow == CronSpec => []TimersFollowTasks
<1>1. CronInv => TimersFollowTasks
  BY DEF CronInv
<1>2. QED
  BY <1>1, CronInvariant, PTL

(* CronTypeOK: no timer fires more often than it is let (MaxFires). *)
THEOREM CronTypes == CronSpec => []CronTypeOK
<1>1. CronInv => CronTypeOK
  BY DEF CronInv
<1>2. QED
  BY <1>1, CronInvariant, PTL
=============================================================================
