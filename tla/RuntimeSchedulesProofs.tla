----------------------- MODULE RuntimeSchedulesProofs -----------------------
(***************************************************************************)
(* Only what an owner approved or the environment configured fires, for    *)
(* every set of schedules, payloads and commands, however many writes of   *)
(* the store are under way, fail or tear the file, and wherever the        *)
(* process crashes.  The invariant follows approved tasks through every    *)
(* place that holds them: the store, the snapshots on their way to the     *)
(* file, the file, and the runtime objects, those that outlive their       *)
(* registration included.                                                  *)
(***************************************************************************)
EXTENDS RuntimeSchedules, CronSchedulerProofs

USE EnvAssumption

-----------------------------------------------------------------------------
(* The inductive invariant.                                                 *)

(* A store whose active schedules were all approved.                        *)
Backed(s) == s \in Store /\ ActiveCronTasks(s) \subseteq approved

Live(ref) == ref \in Registered \/ ref \in armed \/ Busy(ref)

ApprovalInv ==
  /\ Backed(schedules)
  /\ \A c \in DOMAIN writers : Backed(writers[c].snapshot)
  /\ file # Torn => Backed(file)
  /\ fired \subseteq approved \cup EnvTasks
  /\ \A ref \in RuntimeRef : Live(ref) => task[ref] \in approved \cup EnvTasks

(* The lane has the active schedules, and the tasks of the environment that
   nothing was decided about; a dead process has nothing.                   *)
LaneInv ==
  /\ up => /\ DOMAIN runtimes = Active(schedules) \cup (EnvIds \ decided)
           /\ Active(schedules) \cap EnvIds \subseteq decided
           /\ \A id \in Active(schedules) : task[runtimes[id]] = TaskOf(schedules, id)
           /\ \A t \in EnvTasks : t.id \notin decided => task[runtimes[t.id]] = t
  /\ ~up => /\ phase = "new" /\ DOMAIN runtimes = {} /\ decided = {}
            /\ DOMAIN pending = {} /\ DOMAIN bySchedule = {}

ScheduleInv == CronInv /\ ScheduleTypeOK /\ ApprovalInv /\ LaneInv /\ PendingPremiseHolds

-----------------------------------------------------------------------------
(* Stores.                                                                  *)

(* A store maps some ids to schedules.                                      *)
LEMMA StoreFacts ==
  ASSUME NEW s
  PROVE  s \in Store <=> /\ DOMAIN s \subseteq TaskId /\ s = [id \in DOMAIN s |-> s[id]]
                         /\ \A id \in DOMAIN s : s[id] \in Schedule
BY DEF Store

(* The active tasks are those of the active schedules, and tasks.           *)
LEMMA ActiveFacts ==
  ASSUME NEW s \in Store
  PROVE  /\ Active(s) \subseteq TaskId /\ ActiveCronTasks(s) \subseteq Task
         /\ \A id \in Active(s) : TaskOf(s, id) \in ActiveCronTasks(s)
<1>1. \A id \in DOMAIN s : id \in TaskId /\ s[id].payload \in Payload
  BY StoreFacts DEF Schedule
<1> QED BY <1>1 DEF Active, ActiveCronTasks, TaskOf, Task

(* Two stores that agree on what is active.                                 *)
Agree(s, t) == Active(s) = Active(t) /\ \A id \in Active(s) : s[id] = t[id]

(* Stores that have the same active schedules have the same tasks. *)
LEMMA AgreeSame ==
  ASSUME NEW s, NEW t, Agree(s, t)
  PROVE  /\ ActiveCronTasks(s) = ActiveCronTasks(t)
         /\ \A id \in Active(s) : TaskOf(s, id) = TaskOf(t, id)
BY DEF Agree, ActiveCronTasks, TaskOf

(* Setting one entry.                                                       *)
LEMMA WithFacts ==
  ASSUME NEW f, NEW x, NEW y
  PROVE  /\ DOMAIN With(f, x, y) = DOMAIN f \cup {x} /\ With(f, x, y)[x] = y
         /\ \A z \in DOMAIN f \ {x} : With(f, x, y)[z] = f[z]
BY DEF With

(* A rejected create leaves a trace where nothing is active, and no other
   rejection leaves one: what is active is untouched.                       *)
LEMMA RejectionsKeepActive ==
  ASSUME ScheduleTypeOK, PendingPremiseHolds, NEW R \in SUBSET DOMAIN pending
  PROVE  Rejections(R) \in Store /\ Agree(schedules, Rejections(R))
<1> DEFINE trace == Creates(R)
           s == Rejections(R)
           Rejected(id) == \E c \in trace : pending[c].id = id
           left(id) == pending[CHOOSE c \in trace : pending[c].id = id].payload
<1>1. /\ trace \subseteq DOMAIN pending
      /\ \A c \in trace : /\ pending[c].id \in TaskId /\ pending[c].payload \in Payload
                          /\ pending[c].id \notin Active(schedules)
  BY DEF Creates, ScheduleTypeOK, PendingPremiseHolds
<1>2. /\ DOMAIN s = DOMAIN schedules \cup {pending[c].id : c \in trace}
      /\ s = [id \in DOMAIN s |-> s[id]]
      /\ \A id \in DOMAIN s :
           /\ Rejected(id) => s[id] = [status |-> "rejected", payload |-> left(id)]
           /\ ~Rejected(id) => s[id] = schedules[id]
  BY DEF Rejections
<1>3. DOMAIN schedules \subseteq TaskId /\ \A id \in DOMAIN schedules : schedules[id] \in Schedule
  BY StoreFacts DEF ScheduleTypeOK
<1>a. \A id : Rejected(id) => left(id) \in Payload /\ id \in TaskId /\ id \notin Active(schedules)
  <2> SUFFICES ASSUME NEW id, Rejected(id)
               PROVE  left(id) \in Payload /\ id \in TaskId /\ id \notin Active(schedules)
    OBVIOUS
  <2>1. (CHOOSE c \in trace : pending[c].id = id) \in trace
    OBVIOUS
  <2> QED BY <1>1, <2>1
<1>b. \A id \in DOMAIN s : Rejected(id) \/ id \in DOMAIN schedules
  BY <1>2
<1> HIDE DEF s, trace, Rejected, left
<1>c. \A id : Rejected(id) => [status |-> "rejected", payload |-> left(id)] \in Schedule
  BY <1>a DEF Schedule
<1>4. \A id \in DOMAIN s : id \in TaskId /\ s[id] \in Schedule
  BY <1>2, <1>3, <1>a, <1>b, <1>c
<1>5. s \in Store
  BY <1>2, <1>4, StoreFacts
<1>6. Agree(schedules, s)
  <2>1. \A id \in Active(schedules) : id \in DOMAIN s /\ s[id] = schedules[id]
    BY <1>2, <1>a DEF Active
  <2>2. \A id \in Active(s) : id \in Active(schedules)
    <3> SUFFICES ASSUME NEW id \in DOMAIN s, s[id].status = "active"
                 PROVE  id \in Active(schedules)
      BY DEF Active
    <3>1. ASSUME Rejected(id) PROVE FALSE
      <4>1. s[id] = [status |-> "rejected", payload |-> left(id)]
        BY <1>2, <3>1
      <4> QED BY <4>1
    <3> QED BY <1>2, <1>b, <3>1 DEF Active
  <2> QED BY <2>1, <2>2 DEF Agree, Active
<1> QED BY <1>5, <1>6 DEF s

(* What is left of the maps stays consistent.                               *)
LEMMA WithoutFacts ==
  ASSUME PendingPremiseHolds, NEW R \in SUBSET DOMAIN pending
  PROVE  /\ DOMAIN PendingWithout(R) = DOMAIN pending \ R
         /\ \A c \in DOMAIN pending \ R : PendingWithout(R)[c] = pending[c]
         /\ DOMAIN ByScheduleWithout(R) = {pending[c].id : c \in DOMAIN pending \ R}
         /\ \A c \in DOMAIN pending \ R : ByScheduleWithout(R)[pending[c].id] = c
<1>1. \A c, d \in DOMAIN pending : pending[c].id = pending[d].id => c = d
  BY DEF PendingPremiseHolds
<1>2. DOMAIN ByScheduleWithout(R) = {pending[c].id : c \in DOMAIN pending \ R}
  BY <1>1 DEF ByScheduleWithout, Without, PendingPremiseHolds
<1>3. \A c \in DOMAIN pending \ R : ByScheduleWithout(R)[pending[c].id] = c
  BY <1>1 DEF ByScheduleWithout, Without, PendingPremiseHolds
<1> QED BY <1>2, <1>3 DEF PendingWithout, Without

Writing == [ snapshot: Store, ack: TaskId \cup {"none"},
             stage: {"mkdir", "write"}, alone: BOOLEAN ]

(* What a rejection sends to the file is backed.                            *)
LEMMA WritersAfterFacts ==
  ASSUME ScheduleInv, NEW R \in SUBSET DOMAIN pending
  PROVE  /\ DOMAIN WritersAfter(R) \subseteq ScheduleCommand
         /\ \A c \in DOMAIN WritersAfter(R) : /\ WritersAfter(R)[c] \in Writing
                                             /\ Backed(WritersAfter(R)[c].snapshot)
<1>1. Rejections(R) \in Store /\ ActiveCronTasks(Rejections(R)) = ActiveCronTasks(schedules)
  BY RejectionsKeepActive, AgreeSame DEF ScheduleInv
<1>2. Backed(Rejections(R))
  BY <1>1 DEF ScheduleInv, ApprovalInv, Backed
<1>3. /\ DOMAIN WritersAfter(R) = DOMAIN writers \cup Creates(R)
      /\ \A c \in DOMAIN WritersAfter(R) :
           \/ WritersAfter(R)[c] = Writer(Rejections(R), "none")
           \/ c \in DOMAIN writers /\ WritersAfter(R)[c] = writers[c]
  BY DEF WritersAfter
<1>a. /\ Writer(Rejections(R), "none") \in Writing
      /\ Writer(Rejections(R), "none").snapshot = Rejections(R)
  BY <1>1 DEF Writer, Writing
<1>4. Creates(R) \subseteq ScheduleCommand
  BY DEF Creates, ScheduleInv, ScheduleTypeOK
<1> QED BY <1>2, <1>3, <1>4, <1>a DEF ScheduleInv, ScheduleTypeOK, ApprovalInv, Writing

-----------------------------------------------------------------------------
(* The steps.                                                               *)

(* A step that leaves the lane and what is active alone keeps what is said
   of them.                                                                 *)
LEMMA LaneQuiet ==
  ASSUME ScheduleInv, UNCHANGED <<cronVars, up, approved, decided>>,
         schedules' \in Store, Agree(schedules, schedules'),
         (\A c \in DOMAIN writers : Backed(writers[c].snapshot))',
         (file # Torn => Backed(file))',
         ~up => DOMAIN pending' = {} /\ DOMAIN bySchedule' = {}
  PROVE  CronInv' /\ ApprovalInv' /\ LaneInv'
<1>1. CronInv'
  BY StepKeeps DEF ScheduleInv
<1>2. /\ ActiveCronTasks(schedules') = ActiveCronTasks(schedules)
      /\ Active(schedules') = Active(schedules)
      /\ \A id \in Active(schedules) : TaskOf(schedules', id) = TaskOf(schedules, id)
  BY AgreeSame DEF Agree
<1>3. \A ref : Live(ref)' <=> Live(ref)
  BY DEF Live, Registered, Busy, cronVars
<1>4. Backed(schedules)'
  BY <1>2 DEF Backed, ScheduleInv, ApprovalInv
<1>5. /\ fired' \subseteq approved' \cup EnvTasks
      /\ \A ref \in RuntimeRef : Live(ref)' => task'[ref] \in approved' \cup EnvTasks
  BY <1>3 DEF ScheduleInv, ApprovalInv, cronVars
<1>6. ApprovalInv'
  BY <1>4, <1>5 DEF ApprovalInv
<1>7. LaneInv'
  BY <1>2 DEF LaneInv, ScheduleInv, cronVars
<1> QED BY <1>1, <1>6, <1>7

(* Whoever is refused or lapses leaves nothing behind but its trace.        *)
LEMMA RefusingKeeps ==
  ASSUME ScheduleInv, up, NEW R \in SUBSET DOMAIN pending, NEW L \in SUBSET (DOMAIN pending \ R),
         schedules' = Rejections(R), pending' = PendingWithout(R),
         bySchedule' = ByScheduleWithout(R), writers' = WritersAfter(R), lapsed' = L,
         UNCHANGED <<cronVars, up, file, approved, deleted, decided>>
  PROVE  ScheduleInv'
<1>1. schedules' \in Store /\ Agree(schedules, schedules')
  BY RejectionsKeepActive DEF ScheduleInv
<1>2. /\ DOMAIN writers' \subseteq ScheduleCommand /\ \A c \in DOMAIN writers' : writers'[c] \in Writing
      /\ (\A c \in DOMAIN writers : Backed(writers[c].snapshot))'
  BY WritersAfterFacts DEF Backed
<1>3. CronInv' /\ ApprovalInv' /\ LaneInv'
  <2>1. (file # Torn => Backed(file))'
    BY DEF ScheduleInv, ApprovalInv, Backed
  <2> QED BY <1>1, <1>2, <2>1, LaneQuiet
<1>4. /\ DOMAIN pending' = DOMAIN pending \ R
      /\ \A c \in DOMAIN pending' : pending'[c] = pending[c]
      /\ DOMAIN bySchedule' = {pending[c].id : c \in DOMAIN pending'}
      /\ \A c \in DOMAIN pending' : bySchedule'[pending[c].id] = c
  BY WithoutFacts DEF ScheduleInv
<1>5. ScheduleTypeOK'
  BY <1>1, <1>2, <1>4 DEF ScheduleInv, ScheduleTypeOK, Writing
<1>6. PendingPremiseHolds'
  BY <1>1, <1>4 DEF ScheduleInv, PendingPremiseHolds, Agree
<1> QED BY <1>3, <1>5, <1>6 DEF ScheduleInv

(* A proposal waits for its owner, on the premise that it checked.          *)
LEMMA PrepareKeeps ==
  ASSUME ScheduleInv, NEW c \in ScheduleCommand, NEW op \in Operation, NEW id \in TaskId,
         NEW payload \in Payload, Prepare(c, op, id, payload)
  PROVE  ScheduleInv'
<1> DEFINE new == [op |-> op, id |-> id, payload |-> payload]
           held == ByScheduleWithout(lapsed)
<1>0. /\ up /\ c \notin DOMAIN pending /\ lapsed \in SUBSET DOMAIN pending
      /\ schedules' = Rejections(lapsed) /\ writers' = WritersAfter(lapsed)
      /\ pending' = With(PendingWithout(lapsed), c, new)
      /\ bySchedule' = With(held, id, c) /\ lapsed' = {}
      /\ UNCHANGED <<cronVars, up, file, approved, deleted, decided>>
      /\ id \notin DOMAIN held /\ (op = "create" <=> id \notin Active(schedules))
  BY DEF Prepare, Acceptable, ScheduleInv, ScheduleTypeOK
<1>1. schedules' \in Store /\ Agree(schedules, schedules')
  BY <1>0, RejectionsKeepActive DEF ScheduleInv
<1>2. /\ DOMAIN writers' \subseteq ScheduleCommand /\ \A d \in DOMAIN writers' : writers'[d] \in Writing
      /\ (\A d \in DOMAIN writers : Backed(writers[d].snapshot))'
  BY <1>0, WritersAfterFacts DEF Backed
<1>3. CronInv' /\ ApprovalInv' /\ LaneInv'
  <2>1. (file # Torn => Backed(file))'
    BY <1>0 DEF ScheduleInv, ApprovalInv, Backed
  <2> QED BY <1>0, <1>1, <1>2, <2>1, LaneQuiet
<1>4. /\ DOMAIN PendingWithout(lapsed) = DOMAIN pending \ lapsed
      /\ \A d \in DOMAIN pending \ lapsed : PendingWithout(lapsed)[d] = pending[d]
      /\ DOMAIN held = {pending[d].id : d \in DOMAIN pending \ lapsed}
      /\ \A d \in DOMAIN pending \ lapsed : held[pending[d].id] = d
  BY <1>0, WithoutFacts DEF ScheduleInv
<1> HIDE DEF held
<1>5. /\ DOMAIN pending' = (DOMAIN pending \ lapsed) \cup {c} /\ pending'[c] = new
      /\ \A d \in DOMAIN pending \ lapsed : pending'[d] = pending[d]
  BY <1>0, <1>4 DEF With
<1>6. /\ DOMAIN bySchedule' = DOMAIN held \cup {id} /\ bySchedule'[id] = c
      /\ \A i \in DOMAIN held : bySchedule'[i] = held[i]
  BY <1>0 DEF With
<1>7. ScheduleTypeOK'
  BY <1>0, <1>1, <1>2, <1>5 DEF ScheduleInv, ScheduleTypeOK, Writing
<1>8. PendingPremiseHolds'
  <2>1. DOMAIN bySchedule' = {pending'[d].id : d \in DOMAIN pending'}
    BY <1>4, <1>5, <1>6
  <2>2. ASSUME NEW d \in DOMAIN pending'
        PROVE  /\ bySchedule'[pending'[d].id] = d
               /\ pending'[d].op = "create" <=> pending'[d].id \notin Active(schedules')
    <3>1. CASE d = c
      BY <1>0, <1>1, <1>5, <1>6, <3>1 DEF Agree
    <3>2. CASE d # c
      <4>1. d \in DOMAIN pending \ lapsed /\ pending'[d] = pending[d] /\ pending[d].id \in DOMAIN held
        BY <1>4, <1>5, <2>2, <3>2
      <4> QED BY <1>1, <1>4, <1>6, <4>1 DEF Agree, ScheduleInv, PendingPremiseHolds
    <3> QED BY <3>1, <3>2
  <2> QED BY <2>1, <2>2 DEF PendingPremiseHolds
<1> QED BY <1>3, <1>7, <1>8 DEF ScheduleInv

(* Writing the file moves snapshots, which are backed, or tears the file.   *)
LEMMA WritingKeeps ==
  ASSUME ScheduleInv, NEW c \in ScheduleCommand, BeginWrite(c) \/ EndWrite(c) \/ FailWrite(c)
  PROVE  ScheduleInv'
<1>0. UNCHANGED <<cronVars, up, schedules, pending, lapsed, bySchedule, approved, decided>>
  BY DEF BeginWrite, EndWrite, FailWrite
<1>1. /\ DOMAIN writers' \subseteq DOMAIN writers
      /\ \A d \in DOMAIN writers' : /\ writers'[d].snapshot = writers[d].snapshot
                                    /\ writers'[d] \in Writing
  <2>a. \A d \in DOMAIN writers : writers[d] \in Writing
    BY DEF ScheduleInv, ScheduleTypeOK, Writing
  <2>1. CASE BeginWrite(c)
    <3> DEFINE others == {d \in DOMAIN writers \ {c} : writers[d].stage = "write"}
    <3>1. writers' = [d \in DOMAIN writers |->
            CASE d = c -> [writers[c] EXCEPT !.stage = "write", !.alone = (others = {})]
              [] d \in others -> [writers[d] EXCEPT !.alone = FALSE]
              [] OTHER -> writers[d]]
      BY <2>1 DEF BeginWrite
    <3>2. c \notin others
      OBVIOUS
    <3> HIDE DEF others
    <3>3. ASSUME NEW d \in DOMAIN writers
          PROVE  writers'[d].snapshot = writers[d].snapshot /\ writers'[d] \in Writing
      <4>0. writers[d] \in Writing
        BY <2>a
      <4>1. CASE d = c
        <5>1. writers'[d] = [writers[d] EXCEPT !.stage = "write", !.alone = (others = {})]
          BY <3>1, <3>2, <4>1
        <5> QED BY <4>0, <5>1 DEF Writing
      <4>2. CASE d \in others
        <5>1. writers'[d] = [writers[d] EXCEPT !.alone = FALSE]
          BY <3>1, <3>2, <4>2
        <5> QED BY <4>0, <5>1 DEF Writing
      <4>3. CASE d # c /\ d \notin others
        BY <3>1, <4>0, <4>3
      <4> QED BY <4>1, <4>2, <4>3
    <3> QED BY <3>1, <3>3
  <2>2. CASE EndWrite(c) \/ FailWrite(c)
    BY <2>2, <2>a DEF EndWrite, FailWrite, Without
  <2> QED BY <2>1, <2>2
<1>2. (\A d \in DOMAIN writers : Backed(writers[d].snapshot))'
  BY <1>0, <1>1 DEF ScheduleInv, ApprovalInv, Backed
<1>3. (file # Torn => Backed(file))' /\ file' \in Store \cup {Torn} /\ deleted' \subseteq TaskId
  <2>1. CASE BeginWrite(c)
    BY <2>1 DEF BeginWrite, ScheduleInv, ScheduleTypeOK
  <2>2. CASE EndWrite(c)
    <3>1. c \in DOMAIN writers /\ Backed(writers[c].snapshot) /\ DOMAIN schedules \subseteq TaskId
      BY <2>2, StoreFacts DEF EndWrite, ScheduleInv, ApprovalInv, ScheduleTypeOK
    <3>2. file' = writers[c].snapshot \/ file' = Torn
      BY <2>2 DEF EndWrite
    <3>3. deleted' \subseteq deleted \cup DOMAIN schedules
      BY <2>2 DEF EndWrite
    <3> QED BY <1>0, <3>1, <3>2, <3>3 DEF Backed, ScheduleInv, ScheduleTypeOK
  <2>3. CASE FailWrite(c)
    BY <2>3 DEF FailWrite, ScheduleInv, ApprovalInv, ScheduleTypeOK, Backed
  <2> QED BY <2>1, <2>2, <2>3
<1>4. CronInv' /\ ApprovalInv' /\ LaneInv'
  <2>1. schedules' \in Store /\ Agree(schedules, schedules')
    BY <1>0 DEF Agree, ScheduleInv, ScheduleTypeOK
  <2>2. ~up => DOMAIN pending' = {} /\ DOMAIN bySchedule' = {}
    BY <1>0 DEF ScheduleInv, LaneInv
  <2> QED BY <1>0, <1>2, <1>3, <2>1, <2>2, LaneQuiet
<1>5. ScheduleTypeOK' /\ PendingPremiseHolds'
  BY <1>0, <1>1, <1>3 DEF ScheduleInv, ScheduleTypeOK, PendingPremiseHolds, Writing
<1> QED BY <1>4, <1>5 DEF ScheduleInv

(* The record an approval stores, and what stays of the others.             *)
LEMMA ApprovedStore ==
  ASSUME ScheduleInv, NEW c \in DOMAIN pending, NEW op, op = pending[c],
         schedules' = With(Rejections(lapsed), op.id, Outcome(op))
  PROVE  /\ schedules' \in Store
         /\ Active(schedules') = (Active(schedules) \ {op.id})
                                    \cup (IF op.op = "delete" THEN {} ELSE {op.id})
         /\ \A id \in Active(schedules) \ {op.id} : schedules'[id] = schedules[id]
         /\ TaskOf(schedules', op.id) = [id |-> op.id, payload |-> op.payload]
         /\ TaskOf(schedules', op.id) \in Task
<1> DEFINE s == Rejections(lapsed)
<1>1. s \in Store /\ Agree(schedules, s)
  BY RejectionsKeepActive DEF ScheduleInv, ScheduleTypeOK
<1>2. op.id \in TaskId /\ op.payload \in Payload
  BY DEF ScheduleInv, ScheduleTypeOK
<1>a. /\ Outcome(op).payload = op.payload /\ Outcome(op) \in Schedule
      /\ Outcome(op).status = IF op.op = "delete" THEN "deleted" ELSE "active"
  BY <1>2 DEF Outcome, Schedule
<1> HIDE DEF s
<1>3. /\ DOMAIN schedules' = DOMAIN s \cup {op.id} /\ schedules'[op.id] = Outcome(op)
      /\ \A id \in DOMAIN s \ {op.id} : schedules'[id] = s[id]
      /\ schedules' = [id \in DOMAIN schedules' |-> schedules'[id]]
  BY DEF With, s
<1>4. \A id \in DOMAIN schedules' : id \in TaskId /\ schedules'[id] \in Schedule
  BY <1>1, <1>2, <1>3, <1>a, StoreFacts
<1>5. schedules' \in Store
  BY <1>3, <1>4, StoreFacts
<1>6. \A id \in Active(schedules) \ {op.id} : id \in DOMAIN s /\ schedules'[id] = schedules[id]
  BY <1>1, <1>3 DEF Agree, Active
<1>7. \A id : id # op.id => (id \in Active(schedules') <=> id \in Active(s))
  BY <1>3 DEF Active
<1>8. op.id \in Active(schedules') <=> op.op # "delete"
  BY <1>3, <1>a DEF Active
<1>9. Active(schedules') = (Active(schedules) \ {op.id})
                              \cup (IF op.op = "delete" THEN {} ELSE {op.id})
  BY <1>1, <1>7, <1>8 DEF Agree
<1>10. TaskOf(schedules', op.id) = [id |-> op.id, payload |-> op.payload]
  BY <1>3, <1>a DEF TaskOf
<1>11. TaskOf(schedules', op.id) \in Task
  BY <1>2, <1>10 DEF Task
<1> QED BY <1>5, <1>6, <1>9, <1>10, <1>11

(* An approval stores the operation, registers or removes its task, and
   starts to write what is now approved.                                    *)
LEMMA ApproveKeeps ==
  ASSUME ScheduleInv, NEW c \in ScheduleCommand, Approve(c)
  PROVE  ScheduleInv'
<1>p. PICK op, R : op = pending[c] /\ R = lapsed \cup {c}
  OBVIOUS
<1> DEFINE fresh == TaskOf(schedules', op.id)
<1>0. /\ up /\ c \in DOMAIN pending /\ c \notin lapsed /\ R \in SUBSET DOMAIN pending
      /\ schedules' = With(Rejections(lapsed), op.id, Outcome(op))
      /\ pending' = PendingWithout(R) /\ bySchedule' = ByScheduleWithout(R)
      /\ writers' = With(WritersAfter(lapsed), c,
                         Writer(schedules', IF op.op = "delete" THEN op.id ELSE "none"))
      /\ lapsed' = {} /\ decided' = decided \cup {op.id} /\ UNCHANGED <<up, file>>
  BY <1>p DEF Approve, ScheduleInv, ScheduleTypeOK
<1>1. /\ schedules' \in Store
      /\ Active(schedules') = (Active(schedules) \ {op.id})
                                 \cup (IF op.op = "delete" THEN {} ELSE {op.id})
      /\ \A id \in Active(schedules) \ {op.id} : schedules'[id] = schedules[id]
      /\ fresh \in Task /\ fresh.id = op.id /\ fresh.payload = op.payload
  <2>1. /\ schedules' \in Store
        /\ Active(schedules') = (Active(schedules) \ {op.id})
                                   \cup (IF op.op = "delete" THEN {} ELSE {op.id})
        /\ \A id \in Active(schedules) \ {op.id} : schedules'[id] = schedules[id]
        /\ TaskOf(schedules', op.id) = [id |-> op.id, payload |-> op.payload]
        /\ TaskOf(schedules', op.id) \in Task
    BY <1>p, <1>0, ApprovedStore
  <2> QED BY <2>1
<1>2. \/ /\ op.op = "delete" /\ RemoveTask(op.id) /\ UNCHANGED <<approved, deleted>>
      \/ /\ op.op # "delete" /\ UpsertTask(fresh)
         /\ approved' = approved \cup {fresh} /\ deleted' = deleted \ {op.id}
  BY <1>p DEF Approve
<1>3. op.id \in TaskId /\ op.op \in Operation
  BY <1>p, <1>0 DEF ScheduleInv, ScheduleTypeOK
<1>4. /\ approved \subseteq approved' /\ approved' \subseteq Task /\ deleted' \subseteq TaskId
      /\ decided' \subseteq TaskId
  BY <1>0, <1>1, <1>2, <1>3 DEF ScheduleInv, ScheduleTypeOK
<1>5. CronInv'
  <2>1. [CronNext]_cronVars
    BY <1>1, <1>2, <1>3 DEF CronNext
  <2> QED BY <2>1, StepKeeps DEF ScheduleInv
<1>6. /\ DOMAIN pending' = DOMAIN pending \ R
      /\ \A d \in DOMAIN pending' : pending'[d] = pending[d]
      /\ DOMAIN bySchedule' = {pending[d].id : d \in DOMAIN pending'}
      /\ \A d \in DOMAIN pending' : bySchedule'[pending[d].id] = d
  <2>1. PendingPremiseHolds /\ R \in SUBSET DOMAIN pending
    BY <1>0 DEF ScheduleInv
  <2>2. /\ DOMAIN PendingWithout(R) = DOMAIN pending \ R
        /\ \A d \in DOMAIN pending \ R : PendingWithout(R)[d] = pending[d]
        /\ DOMAIN ByScheduleWithout(R) = {pending[d].id : d \in DOMAIN pending \ R}
        /\ \A d \in DOMAIN pending \ R : ByScheduleWithout(R)[pending[d].id] = d
    BY <2>1, WithoutFacts
  <2> QED BY <1>0, <2>2
<1>7. \A d \in DOMAIN pending' : pending[d].id # op.id
  BY <1>p, <1>0, <1>6 DEF ScheduleInv, PendingPremiseHolds
<1>8. PendingPremiseHolds'
  BY <1>1, <1>6, <1>7 DEF ScheduleInv, PendingPremiseHolds
<1>9. \A id \in Active(schedules) \ {op.id} : TaskOf(schedules', id) = TaskOf(schedules, id)
  BY <1>1 DEF TaskOf
<1>10. ActiveCronTasks(schedules') \subseteq approved'
  <2> SUFFICES ASSUME NEW id \in Active(schedules') PROVE TaskOf(schedules', id) \in approved'
    BY DEF ActiveCronTasks
  <2>1. CASE id = op.id
    BY <1>1, <1>2, <2>1
  <2>2. CASE id # op.id
    <3>1. id \in Active(schedules) \ {op.id}
      BY <1>1, <2>2
    <3>2. TaskOf(schedules, id) \in approved
      BY <3>1 DEF ScheduleInv, ApprovalInv, Backed, ActiveCronTasks
    <3> QED BY <1>4, <1>9, <3>1, <3>2
  <2> QED BY <2>1, <2>2
<1>11. /\ DOMAIN writers' \subseteq ScheduleCommand
       /\ \A d \in DOMAIN writers' :
            /\ writers'[d] \in Writing /\ writers'[d].snapshot \in Store
            /\ ActiveCronTasks(writers'[d].snapshot) \subseteq approved'
  <2>1. /\ DOMAIN WritersAfter(lapsed) \subseteq ScheduleCommand
        /\ \A d \in DOMAIN WritersAfter(lapsed) :
             /\ WritersAfter(lapsed)[d] \in Writing
             /\ Backed(WritersAfter(lapsed)[d].snapshot)
    BY WritersAfterFacts DEF ScheduleInv, ScheduleTypeOK
  <2> DEFINE own == Writer(schedules', IF op.op = "delete" THEN op.id ELSE "none")
  <2>2. own \in Writing /\ own.snapshot = schedules'
    BY <1>1, <1>3 DEF Writer, Writing
  <2> HIDE DEF own
  <2>3. /\ DOMAIN writers' = DOMAIN WritersAfter(lapsed) \cup {c} /\ writers'[c] = own
        /\ \A d \in DOMAIN WritersAfter(lapsed) \ {c} : writers'[d] = WritersAfter(lapsed)[d]
    BY <1>0 DEF With, own
  <2> QED BY <1>1, <1>4, <1>10, <2>1, <2>2, <2>3 DEF Backed
<1>12. ScheduleTypeOK'
  <2>1. \A d \in DOMAIN pending' : pending'[d] \in [op: Operation, id: TaskId, payload: Payload]
    BY <1>6 DEF ScheduleInv, ScheduleTypeOK
  <2>2. up' \in BOOLEAN /\ lapsed' \subseteq DOMAIN pending' /\ file' \in Store \cup {Torn}
        /\ DOMAIN pending' \subseteq ScheduleCommand
    BY <1>0, <1>6 DEF ScheduleInv, ScheduleTypeOK
  <2>3. /\ DOMAIN writers' \subseteq ScheduleCommand
        /\ \A d \in DOMAIN writers' :
             writers'[d] \in [ snapshot: Store, ack: TaskId \cup {"none"},
                              stage: {"mkdir", "write"}, alone: BOOLEAN ]
    BY <1>11 DEF Writing
  <2>4. schedules' \in Store
    BY <1>1
  <2> QED BY <1>4, <2>1, <2>2, <2>3, <2>4 DEF ScheduleTypeOK
<1>13. LaneInv' /\ \A ref \in RuntimeRef : Live(ref)' => task'[ref] \in approved' \cup EnvTasks
  <2>0. /\ DOMAIN runtimes = Active(schedules) \cup (EnvIds \ decided)
        /\ Active(schedules) \cap EnvIds \subseteq decided
        /\ \A id \in Active(schedules) : task[runtimes[id]] = TaskOf(schedules, id)
        /\ \A t \in EnvTasks : t.id \notin decided => task[runtimes[t.id]] = t
        /\ \A ref \in RuntimeRef : Live(ref) => task[ref] \in approved \cup EnvTasks
        /\ \A id \in DOMAIN runtimes : runtimes[id] \in RuntimeRef
        /\ task \in [RuntimeRef -> Task] /\ armed \subseteq RuntimeRef
    BY <1>0 DEF ScheduleInv, LaneInv, ApprovalInv, CronInv, CronTypeOK
  <2>a. \A t \in EnvTasks : t.id \notin decided' => /\ t.id \in DOMAIN runtimes \ {op.id}
                                                  /\ task[runtimes[t.id]] = t
    BY <1>0, <2>0 DEF EnvIds
  <2>b. \A id \in Active(schedules) \ {op.id} : /\ id \in DOMAIN runtimes \ {op.id}
                                              /\ task[runtimes[id]] = TaskOf(schedules', id)
    BY <1>9, <2>0
  <2>c. Active(schedules') \cap EnvIds \subseteq decided'
    BY <1>0, <1>1, <2>0
  <2>1. CASE op.op = "delete" /\ RemoveTask(op.id) /\ UNCHANGED approved
    <3>1. /\ DOMAIN runtimes' = DOMAIN runtimes \ {op.id}
          /\ \A id \in DOMAIN runtimes' : runtimes'[id] = runtimes[id]
          /\ task' = task /\ armed' \subseteq armed /\ UNCHANGED <<resolving, handling>>
      BY <2>1 DEF RemoveTask, Unregister
    <3>2. \A ref : Live(ref)' => Live(ref)
      BY <3>1 DEF Live, Registered, Busy
    <3>3. LaneInv'
      <4>1. Active(schedules') = Active(schedules) \ {op.id}
        BY <1>1, <2>1
      <4>2. DOMAIN runtimes' = Active(schedules') \cup (EnvIds \ decided')
        BY <1>0, <2>0, <3>1, <4>1
      <4>3. \A id \in Active(schedules') : task'[runtimes'[id]] = TaskOf(schedules', id)
        BY <2>b, <3>1, <4>1
      <4>4. \A t \in EnvTasks : t.id \notin decided' => task'[runtimes'[t.id]] = t
        BY <2>a, <3>1
      <4> QED BY <1>0, <2>c, <4>2, <4>3, <4>4 DEF LaneInv, EnvIds
    <3> QED BY <2>0, <2>1, <3>1, <3>2, <3>3
  <2>2. CASE op.op # "delete" /\ UpsertTask(fresh) /\ approved' = approved \cup {fresh}
    <3>1. PICK ref \in RuntimeRef :
            /\ Free(ref)
            /\ runtimes' = Register(op.id, ref)
            /\ task' = [task EXCEPT ![ref] = fresh]
            /\ armed' = (armed \ TimerOf(op.id)) \cup (IF phase = "started" THEN {ref} ELSE {})
            /\ UNCHANGED <<resolving, handling>>
      BY <1>1, <2>2 DEF UpsertTask
    <3>2. /\ DOMAIN runtimes' = DOMAIN runtimes \cup {op.id} /\ runtimes'[op.id] = ref
          /\ \A id \in DOMAIN runtimes \ {op.id} : runtimes'[id] = runtimes[id]
      BY <3>1 DEF Register
    <3>3. /\ task'[ref] = fresh
          /\ \A r \in RuntimeRef \ {ref} : task'[r] = task[r] /\ (Live(r)' => Live(r))
      BY <2>0, <3>1, <3>2 DEF Live, Registered, Busy
    <3>4. \A id \in DOMAIN runtimes \ {op.id} : runtimes[id] \in RuntimeRef \ {ref}
      BY <2>0, <3>1 DEF Free, Registered
    <3>5. LaneInv'
      <4>1. Active(schedules') = (Active(schedules) \ {op.id}) \cup {op.id}
        BY <1>1, <2>2
      <4>2. DOMAIN runtimes' = Active(schedules') \cup (EnvIds \ decided')
        BY <1>0, <2>0, <3>2, <4>1
      <4>3. \A id \in Active(schedules') : task'[runtimes'[id]] = TaskOf(schedules', id)
        BY <2>b, <3>2, <3>3, <3>4, <4>1
      <4>4. \A t \in EnvTasks : t.id \notin decided' => task'[runtimes'[t.id]] = t
        BY <2>a, <3>2, <3>3, <3>4
      <4> QED BY <1>0, <2>c, <4>2, <4>3, <4>4 DEF LaneInv, EnvIds
    <3> QED BY <2>0, <2>2, <3>3, <3>5
  <2> QED BY <1>2, <2>1, <2>2
<1>14. fired' = fired
  BY <1>2 DEF RemoveTask, UpsertTask
<1>15. ApprovalInv'
  <2>1. Backed(schedules)' /\ (\A d \in DOMAIN writers : Backed(writers[d].snapshot))'
    BY <1>1, <1>10, <1>11 DEF Backed
  <2>2. (file # Torn => Backed(file))'
    BY <1>0, <1>4 DEF ScheduleInv, ApprovalInv, Backed
  <2>3. fired' \subseteq approved' \cup EnvTasks
    BY <1>4, <1>14 DEF ScheduleInv, ApprovalInv
  <2> QED BY <1>13, <2>1, <2>2, <2>3 DEF ApprovalInv
<1> QED BY <1>5, <1>8, <1>12, <1>13, <1>15 DEF ScheduleInv

(* A crash forgets all but the file and what was approved.                  *)
LEMMA CrashKeeps == ScheduleInv /\ Crash => ScheduleInv'
<1> SUFFICES ASSUME ScheduleInv, Crash PROVE ScheduleInv'
  OBVIOUS
<1>1. /\ up' = FALSE /\ phase' = "new" /\ armed' = {} /\ lapsed' = {}
      /\ DOMAIN schedules' = {} /\ DOMAIN pending' = {} /\ DOMAIN bySchedule' = {}
      /\ DOMAIN writers' = {} /\ DOMAIN runtimes' = {} /\ decided' = {} /\ runtimes' = << >> /\ schedules' = << >>
      /\ resolving' = [ref \in RuntimeRef |-> 0] /\ handling' = [ref \in RuntimeRef |-> 0]
      /\ UNCHANGED <<task, fired, file, approved, deleted>>
  BY DEF Crash
<1>2. CronTypeOK'
  <2>1. resolving' \in [RuntimeRef -> 0..MaxFires] /\ handling' \in [RuntimeRef -> 0..MaxFires]
    BY <1>1, CronAssumption
  <2>2. runtimes' \in [{} -> RuntimeRef]
    BY <1>1
  <2> QED BY <1>1, <2>1, <2>2 DEF ScheduleInv, CronInv, CronTypeOK
<1>3. Registered' = {} /\ \A ref \in RuntimeRef : resolving'[ref] + handling'[ref] = 0
  BY <1>1 DEF Registered
<1>4. CronInv'
  <2>1. Apart' /\ Untimed' /\ Bounded'
    BY <1>1, <1>3, CronAssumption DEF Apart, Untimed, Bounded, Busy
  <2>2. TimersFollowTasks'
    BY <1>1, <1>3
    DEF TimersFollowTasks, OrphanTimersAreDaily, RegisteredKeepTime, DailyFiresOnce, IdleLaneIsSilent
  <2> QED BY <1>2, <2>1, <2>2 DEF CronInv
<1>b. schedules' = [id \in {} |-> schedules'[id]]
  BY <1>1
<1>5. schedules' \in Store /\ Active(schedules') = {} /\ ActiveCronTasks(schedules') = {}
  BY <1>1, <1>b DEF Store, Active, ActiveCronTasks
<1>6. ScheduleTypeOK'
  BY <1>1, <1>5 DEF ScheduleInv, ScheduleTypeOK
<1>7. ApprovalInv'
  BY <1>1, <1>3, <1>5 DEF ScheduleInv, ApprovalInv, Backed, Live, Busy
<1>8. LaneInv' /\ PendingPremiseHolds'
  BY <1>1 DEF LaneInv, PendingPremiseHolds
<1> QED BY <1>4, <1>6, <1>7, <1>8 DEF ScheduleInv

(* An approval that times out is only marked until the next call prunes.    *)
LEMMA LapseKeeps ==
  ASSUME ScheduleInv, NEW c \in ScheduleCommand, Lapse(c)
  PROVE  ScheduleInv'
<1>1. /\ up /\ c \in DOMAIN pending /\ lapsed' = lapsed \cup {c}
      /\ UNCHANGED <<cronVars, up, schedules, pending, bySchedule, writers, file,
                     approved, deleted, decided>>
  BY DEF Lapse
<1>2. CronInv' /\ ApprovalInv' /\ LaneInv'
  <2>1. schedules' \in Store /\ Agree(schedules, schedules')
    BY <1>1 DEF Agree, ScheduleInv, ScheduleTypeOK
  <2>2. (\A d \in DOMAIN writers : Backed(writers[d].snapshot))' /\ (file # Torn => Backed(file))'
    BY <1>1 DEF ScheduleInv, ApprovalInv, Backed
  <2> QED BY <1>1, <2>1, <2>2, LaneQuiet
<1>3. ScheduleTypeOK' /\ PendingPremiseHolds'
  BY <1>1 DEF ScheduleInv, ScheduleTypeOK, PendingPremiseHolds
<1> QED BY <1>2, <1>3 DEF ScheduleInv

(* A restart registers what the file holds, and the file is backed, beside
   the tasks of the environment.                                            *)
LEMMA BootKeeps ==
  ASSUME ScheduleInv, Boot
  PROVE  ScheduleInv'
<1>1. /\ ~up /\ up' = TRUE /\ file # Torn /\ schedules' = file /\ Active(file) \cap EnvIds = {}
      /\ UNCHANGED <<phase, armed, resolving, handling, fired, pending, lapsed,
                     bySchedule, writers, file, approved, deleted, decided>>
  BY DEF Boot
<1>2. /\ phase = "new" /\ DOMAIN pending = {} /\ DOMAIN bySchedule = {} /\ armed = {}
      /\ \A ref \in RuntimeRef : ~Busy(ref)
      /\ decided = {}
  BY <1>1 DEF ScheduleInv, LaneInv, CronInv, Untimed
<1>3. file \in Store /\ ActiveCronTasks(file) \subseteq approved
  BY <1>1 DEF ScheduleInv, ApprovalInv, Backed
<1> DEFINE tasks == BootTasks(file)
           ids == Active(file) \cup EnvIds
<1>4. /\ Active(file) \subseteq TaskId /\ ActiveCronTasks(file) \subseteq Task
      /\ \A id \in Active(file) : TaskOf(file, id) \in ActiveCronTasks(file)
      /\ \A t \in ActiveCronTasks(file) : t.id \in Active(file) /\ t = TaskOf(file, t.id)
      /\ \A id \in Active(file) : TaskOf(file, id).id = id
  BY <1>3, ActiveFacts DEF ActiveCronTasks, TaskOf
<1>b. /\ tasks \subseteq Task /\ ids \subseteq TaskId
      /\ \A t \in tasks : t.id \in ids
      /\ \A t, u \in tasks : t.id = u.id => t = u
      /\ \A t \in EnvTasks : t \in tasks
      /\ \A id \in Active(file) : TaskOf(file, id) \in tasks
  <2>1. \A t \in EnvTasks : t.id \in EnvIds /\ t.id \in TaskId /\ t.id \notin Active(file)
    BY <1>1 DEF EnvIds, Task
  <2>2. \A id \in EnvIds : id \in TaskId
    BY <2>1 DEF EnvIds
  <2> QED BY <1>4, <2>1, <2>2 DEF BootTasks
<1>5. {t.id : t \in tasks} = ids
  BY <1>4 DEF BootTasks, EnvIds
<1>6. PICK ref \in [{t.id : t \in BootTasks(file)} -> RuntimeRef] :
        /\ \A i, j \in DOMAIN ref : ref[i] = ref[j] => i = j
        /\ runtimes' = ref
        /\ task' = [r \in RuntimeRef |->
                      IF \E t \in BootTasks(file) : ref[t.id] = r
                      THEN CHOOSE t \in BootTasks(file) : ref[t.id] = r
                      ELSE task[r]]
  BY DEF Boot
<1>a. ref \in [ids -> RuntimeRef]
  BY <1>5
<1> HIDE DEF tasks, ids
<1>7. /\ DOMAIN runtimes' = ids /\ runtimes' \in [ids -> RuntimeRef]
      /\ \A i, j \in DOMAIN runtimes' : runtimes'[i] = runtimes'[j] => i = j
  BY <1>6, <1>a
<1>8. \A t \in tasks : task'[runtimes'[t.id]] = t
  <2> SUFFICES ASSUME NEW t \in tasks PROVE task'[runtimes'[t.id]] = t
    OBVIOUS
  <2>1. t \in tasks /\ ref[t.id] \in RuntimeRef
    BY <1>a, <1>b
  <2>2. PICK u : u = CHOOSE v \in BootTasks(file) : ref[v.id] = ref[t.id]
    OBVIOUS
  <2>3. u \in tasks /\ ref[u.id] = ref[t.id]
    BY <2>1, <2>2 DEF tasks
  <2>4. u = t
    <3>1. u.id \in DOMAIN ref /\ t.id \in DOMAIN ref
      BY <1>a, <1>b, <2>1, <2>3
    <3> QED BY <1>6, <1>b, <2>3, <3>1
  <2>6. task'[ref[t.id]] = u
    BY <1>6, <2>1, <2>2 DEF tasks
  <2> QED BY <1>6, <2>4, <2>6
<1>9. task' \in [RuntimeRef -> Task]
  <2>1. \A r \in RuntimeRef : task[r] \in Task
    BY DEF ScheduleInv, CronInv, CronTypeOK
  <2>2. \A r : (\E t \in BootTasks(file) : ref[t.id] = r)
                 => (CHOOSE t \in BootTasks(file) : ref[t.id] = r) \in Task
    BY <1>b DEF tasks
  <2> QED BY <1>6, <2>1, <2>2
<1>10. CronInv'
  <2>1. CronTypeOK'
    BY <1>1, <1>b, <1>7, <1>9 DEF ScheduleInv, CronInv, CronTypeOK
  <2>2. Apart' /\ Untimed' /\ Bounded'
    BY <1>1, <1>2, <1>7 DEF ScheduleInv, CronInv, Apart, Untimed, Bounded, Busy
  <2>3. \A r \in RuntimeRef : resolving'[r] + handling'[r] = 0
    <3> SUFFICES ASSUME NEW r \in RuntimeRef PROVE resolving[r] + handling[r] = 0
      BY <1>1
    <3>1. resolving[r] \in Nat /\ handling[r] \in Nat /\ ~Busy(r)
      BY <1>2, CronAssumption DEF ScheduleInv, CronInv, CronTypeOK
    <3> QED BY <3>1 DEF Busy
  <2>4. TimersFollowTasks'
    BY <1>1, <1>2, <2>3
    DEF TimersFollowTasks, OrphanTimersAreDaily, RegisteredKeepTime, DailyFiresOnce, IdleLaneIsSilent
  <2> QED BY <2>1, <2>2, <2>4 DEF CronInv
<1>11. ScheduleTypeOK' /\ PendingPremiseHolds'
  BY <1>1, <1>2, <1>3 DEF ScheduleInv, ScheduleTypeOK, PendingPremiseHolds
<1>12. LaneInv'
  <2>1. /\ DOMAIN runtimes' = Active(schedules') \cup (EnvIds \ decided')
        /\ Active(schedules') \cap EnvIds \subseteq decided'
    BY <1>1, <1>2, <1>7 DEF ids
  <2>2. \A id \in Active(schedules') : task'[runtimes'[id]] = TaskOf(schedules', id)
    BY <1>1, <1>4, <1>8, <1>b
  <2>3. \A t \in EnvTasks : t.id \notin decided' => task'[runtimes'[t.id]] = t
    BY <1>8, <1>b
  <2> QED BY <1>1, <2>1, <2>2, <2>3 DEF LaneInv, EnvIds
<1>13. \A r \in RuntimeRef : Live(r)' => task'[r] \in approved' \cup EnvTasks
  <2> SUFFICES ASSUME NEW r \in RuntimeRef, Live(r)' PROVE task'[r] \in approved \cup EnvTasks
    BY <1>1
  <2>1. r \in Registered'
    BY <1>1, <1>2 DEF Live, Busy
  <2>2. PICK id \in ids : r = runtimes'[id]
    BY <1>7, <2>1 DEF Registered
  <2>3. PICK t \in tasks : t.id = id
    BY <1>5, <2>2
  <2>4. task'[r] = t
    BY <1>8, <2>2, <2>3
  <2> QED BY <1>3, <2>3, <2>4 DEF tasks, BootTasks
<1>14. ApprovalInv'
  <2>1. Backed(schedules)' /\ (file # Torn => Backed(file))'
    BY <1>1, <1>3 DEF Backed
  <2>2. (\A d \in DOMAIN writers : Backed(writers[d].snapshot))' /\ fired' \subseteq approved' \cup EnvTasks
    BY <1>1 DEF ScheduleInv, ApprovalInv, Backed
  <2> QED BY <1>13, <2>1, <2>2 DEF ApprovalInv
<1> QED BY <1>10, <1>11, <1>12, <1>14 DEF ScheduleInv

(* What the lane does on its own concerns live objects only.                *)
LEMMA LaneKeeps ==
  ASSUME ScheduleInv, Lane
  PROVE  ScheduleInv'
<1>1. CronInv'
  BY StepKeeps DEF ScheduleInv, Lane, CronNext
<1>2. /\ up /\ UNCHANGED storeVars /\ runtimes' = runtimes /\ task' = task
      /\ \A ref \in RuntimeRef : Live(ref)' => Live(ref)
      /\ \A t \in fired' : t \in fired \/ \E ref \in RuntimeRef : Live(ref) /\ t = task[ref]
  <2>1. CASE Start
    BY <2>1 DEF Lane, Start, Live, Registered, Busy
  <2>2. CASE \E ref \in RuntimeRef : Tick(ref)
    <3>1. PICK ref \in RuntimeRef : Tick(ref)
      BY <2>2
    <3>2. up /\ UNCHANGED storeVars /\ runtimes' = runtimes /\ task' = task
      BY <3>1 DEF Lane, Tick, Fire, HandOver, Settle
    <3>3. /\ resolving \in [RuntimeRef -> Nat] /\ handling \in [RuntimeRef -> Nat]
      BY CronAssumption DEF ScheduleInv, CronInv, CronTypeOK
    <3>4. Live(ref)
      BY <3>1, <3>3 DEF Tick, Fire, HandOver, Settle, Live, Busy
    <3>5. \A r \in RuntimeRef \ {ref} : Live(r)' => Live(r)
      <4> SUFFICES ASSUME NEW r \in RuntimeRef \ {ref}, Live(r)' PROVE Live(r)
        OBVIOUS
      <4>1. /\ r \in armed' => r \in armed
            /\ resolving'[r] = resolving[r] /\ handling'[r] = handling[r]
        BY <3>1, <3>3 DEF Tick, Fire, HandOver, Settle
      <4> QED BY <3>2, <4>1 DEF Live, Registered, Busy
    <3>6. \A t \in fired' : t \in fired \/ t = task[ref]
      BY <3>1 DEF Tick, Fire, HandOver, Settle
    <3> QED BY <3>2, <3>4, <3>5, <3>6
  <2> QED BY <2>1, <2>2 DEF Lane
<1>3. ScheduleTypeOK' /\ PendingPremiseHolds'
  BY <1>2 DEF ScheduleInv, ScheduleTypeOK, PendingPremiseHolds, storeVars
<1>4. LaneInv'
  BY <1>2 DEF ScheduleInv, LaneInv, storeVars
<1>5. ApprovalInv'
  BY <1>2 DEF ScheduleInv, ApprovalInv, Backed, storeVars
<1> QED BY <1>1, <1>3, <1>4, <1>5 DEF ScheduleInv

-----------------------------------------------------------------------------
(* The theorems.                                                            *)

(* A process that starts for the first time has no schedules, and the tasks
   of the environment in its lane.                                          *)
LEMMA ScheduleInvInit == ScheduleInit => ScheduleInv
<1> SUFFICES ASSUME ScheduleInit PROVE ScheduleInv
  OBVIOUS
<1>1. /\ up = TRUE /\ phase = "new" /\ armed = {} /\ lapsed = {} /\ fired = {}
      /\ DOMAIN schedules = {} /\ DOMAIN pending = {} /\ DOMAIN bySchedule = {}
      /\ DOMAIN writers = {} /\ file = schedules
      /\ schedules = << >> /\ approved = {} /\ deleted = {} /\ decided = {}
      /\ resolving = [ref \in RuntimeRef |-> 0] /\ handling = [ref \in RuntimeRef |-> 0]
  BY DEF ScheduleInit, CronInit
<1>2. CronInv
  BY InitHolds DEF ScheduleInit
<1>a. schedules = [id \in {} |-> schedules[id]]
  BY <1>1
<1>3. schedules \in Store /\ Active(schedules) = {} /\ ActiveCronTasks(schedules) = {}
  BY <1>1, <1>a DEF Store, Active, ActiveCronTasks
<1>b. /\ DOMAIN runtimes = EnvIds
      /\ \A t \in EnvTasks : task[runtimes[t.id]] = t
  BY DEF ScheduleInit, Registers, EnvIds
<1>4. ScheduleTypeOK
  BY <1>1, <1>3 DEF ScheduleTypeOK
<1>5. ApprovalInv
  <2>1. \A ref \in RuntimeRef : Live(ref) => task[ref] \in EnvTasks
    <3> SUFFICES ASSUME NEW ref \in RuntimeRef, Live(ref) PROVE task[ref] \in EnvTasks
      OBVIOUS
    <3>1. ref \in Registered
      BY <1>1 DEF Live, Busy
    <3>2. PICK t \in EnvTasks : ref = runtimes[t.id]
      BY <1>b, <3>1 DEF Registered, EnvIds
    <3> QED BY <1>b, <3>2
  <2> QED BY <1>1, <1>3, <2>1 DEF ApprovalInv, Backed
<1>6. LaneInv /\ PendingPremiseHolds
  BY <1>1, <1>3, <1>b DEF LaneInv, PendingPremiseHolds, EnvIds
<1> QED BY <1>2, <1>4, <1>5, <1>6 DEF ScheduleInv

(* Every step of the manager, the lane or the process keeps the invariant.  *)
LEMMA ScheduleInvStep == ScheduleInv /\ [ScheduleNext]_scheduleVars => ScheduleInv'
<1> SUFFICES ASSUME ScheduleInv, [ScheduleNext]_scheduleVars PROVE ScheduleInv'
  OBVIOUS
<1>a. lapsed \in SUBSET DOMAIN pending
  BY DEF ScheduleInv, ScheduleTypeOK
<1>1. ASSUME NEW c \in ScheduleCommand, Lapse(c) PROVE ScheduleInv'
  BY <1>1, LapseKeeps
<1>2. ASSUME NEW c \in ScheduleCommand, Reject(c) PROVE ScheduleInv'
  <2>1. /\ {c} \in SUBSET DOMAIN pending /\ lapsed' \in SUBSET (DOMAIN pending \ {c})
        /\ schedules' = Rejections({c}) /\ pending' = PendingWithout({c}) /\ up
        /\ bySchedule' = ByScheduleWithout({c}) /\ writers' = WritersAfter({c})
        /\ UNCHANGED <<cronVars, up, file, approved, deleted, decided>>
    BY <1>2, <1>a DEF Reject
  <2>2. PICK R, L : R = {c} /\ L = lapsed'
    OBVIOUS
  <2> QED BY <2>1, <2>2, RefusingKeeps
<1>3. ASSUME NEW c \in ScheduleCommand, Approve(c) PROVE ScheduleInv'
  BY <1>3, ApproveKeeps
<1>4. ASSUME NEW c \in ScheduleCommand, BeginWrite(c) \/ EndWrite(c) \/ FailWrite(c)
      PROVE  ScheduleInv'
  BY <1>4, WritingKeeps
<1>5. ASSUME NEW c \in ScheduleCommand, NEW op \in Operation, NEW t \in Asked,
             Prepare(c, op, t.id, t.payload)
      PROVE  ScheduleInv'
  <2>1. t.id \in TaskId /\ t.payload \in Payload
    BY ScheduleAssumption DEF Task
  <2> QED BY <1>5, <2>1, PrepareKeeps
<1>6. CASE Prune
  <2>1. /\ schedules' = Rejections(lapsed) /\ pending' = PendingWithout(lapsed) /\ up
        /\ bySchedule' = ByScheduleWithout(lapsed) /\ writers' = WritersAfter(lapsed)
        /\ lapsed' = {} /\ UNCHANGED <<cronVars, up, file, approved, deleted, decided>>
    BY <1>6 DEF Prune
  <2>2. PICK L : L = {}
    OBVIOUS
  <2>3. L \in SUBSET (DOMAIN pending \ lapsed) /\ lapsed' = L
    BY <2>1, <2>2
  <2> QED BY <1>a, <2>1, <2>3, RefusingKeeps
<1>7. CASE Crash
  BY <1>7, CrashKeeps
<1>8. CASE Boot
  BY <1>8, BootKeeps
<1>9. CASE Lane
  BY <1>9, LaneKeeps
<1>10. CASE UNCHANGED scheduleVars
  <2>1. UNCHANGED <<cronVars, up, approved, decided>> /\ UNCHANGED storeVars
    BY <1>10 DEF scheduleVars, storeVars
  <2>2. schedules' \in Store /\ Agree(schedules, schedules')
    BY <2>1 DEF Agree, ScheduleInv, ScheduleTypeOK, storeVars
  <2>3. (\A c \in DOMAIN writers : Backed(writers[c].snapshot))' /\ (file # Torn => Backed(file))'
    BY <2>1 DEF ScheduleInv, ApprovalInv, Backed, storeVars
  <2>4. ~up => DOMAIN pending' = {} /\ DOMAIN bySchedule' = {}
    BY <2>1 DEF ScheduleInv, LaneInv, storeVars
  <2>5. CronInv' /\ ApprovalInv' /\ LaneInv'
    BY <2>1, <2>2, <2>3, <2>4, LaneQuiet
  <2>6. ScheduleTypeOK' /\ PendingPremiseHolds'
    BY <2>1 DEF ScheduleInv, ScheduleTypeOK, PendingPremiseHolds, storeVars
  <2> QED BY <2>5, <2>6 DEF ScheduleInv
<1> QED BY <1>1, <1>2, <1>3, <1>4, <1>5, <1>6, <1>7, <1>8, <1>9, <1>10 DEF ScheduleNext

(* The invariant holds in every reachable state.                            *)
THEOREM SchedulesAreConsistent == ScheduleSpec => []ScheduleInv
BY ScheduleInvInit, ScheduleInvStep, PTL DEF ScheduleSpec

(* The manager's state keeps its types, through crashes and restarts
   (runtime_schedule.ts: open, persist).                                   *)
THEOREM ScheduleTypes == ScheduleSpec => []ScheduleTypeOK
<1>1. ScheduleInv => ScheduleTypeOK
  BY DEF ScheduleInv
<1> QED BY <1>1, SchedulesAreConsistent, PTL

(* What fires, and what a timer is set to fire, an owner approved for that
   id or the environment configured (runtime_schedule.ts: approvePending,
   open; cron_channel.ts: fire).                                            *)
THEOREM OnlyApprovedEverFires == ScheduleSpec => []OnlyApprovedFires
<1>1. ScheduleInv => OnlyApprovedFires
  <2> SUFFICES ASSUME ScheduleInv PROVE OnlyApprovedFires
    OBVIOUS
  <2>1. \A ref \in armed : ref \in RuntimeRef /\ Live(ref)
    BY DEF ScheduleInv, CronInv, CronTypeOK, Live
  <2> QED BY <2>1 DEF ScheduleInv, ApprovalInv, OnlyApprovedFires
<1> QED BY <1>1, SchedulesAreConsistent, PTL

(* One operation waits per schedule, and what it was accepted on is still
   true when the owner answers (runtime_schedule.ts: buildPending,
   approvePending).                                                         *)
THEOREM PendingPremiseStays == ScheduleSpec => []PendingPremiseHolds
<1>1. ScheduleInv => PendingPremiseHolds
  BY DEF ScheduleInv
<1> QED BY <1>1, SchedulesAreConsistent, PTL

(* The lane has the active schedules with their payloads, and the tasks of
   the environment that no approval replaced or removed since the start, also
   right after a restart (runtime_schedule.ts: activeCronTasks, open,
   approvePending; serve.ts: the tasks of the lane).                        *)
THEOREM LaneFollowsStore == ScheduleSpec => []LaneMatchesStore
<1>1. ScheduleInv => LaneMatchesStore
  <2> SUFFICES ASSUME ScheduleInv, up
               PROVE  {task[runtimes[id]] : id \in DOMAIN runtimes}
                        = ActiveCronTasks(schedules) \cup {t \in EnvTasks : t.id \notin decided}
    BY DEF LaneMatchesStore
  <2>1. /\ DOMAIN runtimes = Active(schedules) \cup (EnvIds \ decided)
        /\ \A id \in Active(schedules) : task[runtimes[id]] = TaskOf(schedules, id)
        /\ \A t \in EnvTasks : t.id \notin decided => task[runtimes[t.id]] = t
    BY DEF ScheduleInv, LaneInv
  <2>2. \A id \in EnvIds \ decided : \E t \in EnvTasks : t.id = id /\ t.id \notin decided
    BY DEF EnvIds
  <2>3. \A t \in EnvTasks : t.id \in EnvIds
    BY DEF EnvIds
  <2> QED BY <2>1, <2>2, <2>3 DEF ActiveCronTasks
<1> QED BY <1>1, SchedulesAreConsistent, PTL

(* No crash, and no operation on a schedule, loses or doubles a timer: the
   lane under the manager keeps what the lane alone keeps (cron_channel.ts:
   scheduleTask, upsertTask, removeTask).                                   *)
THEOREM TimersFollowSchedules == ScheduleSpec => []TimersFollowTasks
<1>1. ScheduleInv => TimersFollowTasks
  BY DEF ScheduleInv, CronInv
<1> QED BY <1>1, SchedulesAreConsistent, PTL

(* An active schedule changes by the approval of an update or a deletion of
   it, and by nothing else that happens while the process is up
   (runtime_schedule.ts: approvePending, rejectPending,
   pruneExpiredPending).                                                    *)
THEOREM OnlyApprovalChangesActive == ScheduleSpec => ActiveChangesByApproval
<1> DEFINE Changed == \A id \in Active(schedules) :
             schedules'[id] = schedules[id] \/ \E c \in DOMAIN pending \ lapsed :
               pending[c].id = id /\ c \in DOMAIN writers' /\ c \notin DOMAIN pending'
               /\ pending[c].op # "create"
<1>1. ASSUME ScheduleInv, [ScheduleNext]_scheduleVars, up, up' PROVE Changed
  <2>a. lapsed \in SUBSET DOMAIN pending /\ ScheduleTypeOK /\ PendingPremiseHolds
    BY <1>1 DEF ScheduleInv, ScheduleTypeOK
  <2>b. \A R \in SUBSET DOMAIN pending : schedules' = Rejections(R) => Changed
    BY <2>a, RejectionsKeepActive DEF Agree
  <2>1. ASSUME NEW c \in ScheduleCommand, Reject(c) PROVE Changed
    <3>1. {c} \in SUBSET DOMAIN pending /\ schedules' = Rejections({c})
      BY <2>1 DEF Reject
    <3> QED BY <2>b, <3>1
  <2>2. CASE \/ Prune
             \/ \E c \in ScheduleCommand, op \in Operation, t \in Asked :
                  Prepare(c, op, t.id, t.payload)
    <3>1. schedules' = Rejections(lapsed)
      BY <2>2 DEF Prune, Prepare
    <3> QED BY <2>a, <2>b, <3>1
  <2>3. ASSUME NEW c \in ScheduleCommand, Approve(c) PROVE Changed
    <3>1. PICK op, R : op = pending[c] /\ R = lapsed \cup {c}
      OBVIOUS
    <3>2. /\ c \in DOMAIN pending /\ c \notin lapsed
          /\ schedules' = With(Rejections(lapsed), op.id, Outcome(op))
          /\ pending' = PendingWithout(R) /\ c \in R
          /\ writers' = With(WritersAfter(lapsed), c,
                             Writer(schedules', IF op.op = "delete" THEN op.id ELSE "none"))
      BY <2>3, <3>1 DEF Approve
    <3>3. \A id \in Active(schedules) \ {op.id} : schedules'[id] = schedules[id]
      BY <1>1, <3>1, <3>2, ApprovedStore
    <3>4. c \in DOMAIN writers' /\ c \notin DOMAIN pending'
      BY <3>2 DEF With, PendingWithout, Without
    <3>5. op.id \in Active(schedules) => op.op # "create"
      BY <2>a, <3>1, <3>2 DEF PendingPremiseHolds
    <3> QED BY <3>1, <3>2, <3>3, <3>4, <3>5
  <2>4. CASE schedules' = schedules
    BY <2>4
  <2>5. ASSUME NEW c \in ScheduleCommand, Lapse(c) \/ BeginWrite(c) \/ EndWrite(c) \/ FailWrite(c)
        PROVE  schedules' = schedules
    BY <2>5 DEF Lapse, BeginWrite, EndWrite, FailWrite
  <2>6. CASE Crash \/ Boot
    BY <1>1, <2>6 DEF Crash, Boot
  <2>7. Lane \/ UNCHANGED scheduleVars => schedules' = schedules
    BY DEF Lane, scheduleVars, storeVars
  <2> QED BY <1>1, <2>1, <2>2, <2>3, <2>4, <2>5, <2>6, <2>7 DEF ScheduleNext
<1>2. ScheduleInv /\ [ScheduleNext]_scheduleVars => [up /\ up' => Changed]_scheduleVars
  BY <1>1
<1> QED BY <1>2, SchedulesAreConsistent, PTL DEF ScheduleSpec, ActiveChangesByApproval
=============================================================================
