--------------------------- MODULE HdsController ---------------------------
(***************************************************************************)
(* HDSUpperController: the authority kernel.  It turns inbound requests    *)
(* into decisions, keeps the requests a SUSPEND halted until a human       *)
(* answers, keeps the commands it has emitted until the gateway reports    *)
(* their fate, and writes every step into the audit chain.                 *)
(*                                                                         *)
(* Each method of the class is synchronous, so each is one action.  The    *)
(* detector scores are abstracted to the verdict they lead commit() to.    *)
(* The audit chain is the set of its records: nothing in this class reads  *)
(* their order, and each property about "before" is an invariant of every  *)
(* prefix.  Request ids and command ids are randomUUID() values, hence     *)
(* fresh, except the one id every malformed request is filed under.        *)
(*                                                                         *)
(* AuditLog.append enters an entry into the chain and then writes its      *)
(* line, which may throw.  The error leaves the method of the controller   *)
(* there: the entry stays in the chain, nothing the method does after it   *)
(* happens.  What a call that threw has appended is kept apart.            *)
(***************************************************************************)
EXTENDS ProcessPolicy, FiniteSets

CONSTANTS
  Request,          \* ids of the well-formed requests
  Command,          \* ids available to the commands built from them
  InvalidRequest,   \* "invalid-inbound-boundary"
  Profile,          \* what each request carries: [Request -> Inbound]
  MemoryCaptures,   \* outcomes of a capture into the long-term memory
  MaxAudit,         \* bound on the audit records of a behaviour
  MaxDangling       \* how many may be of calls that threw: 0, the disk is sound

ASSUME ControllerAssumption ==
  /\ InvalidRequest \notin Request
  /\ Profile \in [Request -> Inbound]
  /\ MemoryCaptures \subseteq BOOLEAN /\ FALSE \in MemoryCaptures
  /\ MaxAudit \in Nat /\ MaxDangling \in Nat

VARIABLES
  state,      \* ControllerState
  inflight,   \* command id -> the decision log it was emitted under
  suspended,  \* request id -> may a human resume it?
  audit,      \* records appended by calls that returned
  dangling,   \* records appended by calls that then threw
  issued,     \* command id -> the log its upstream_decision names
  healthy     \* evaluateSelfHealth() finds no failed precondition

vars == <<state, inflight, suspended, audit, dangling, issued, healthy>>

-----------------------------------------------------------------------------
AnyRequest     == Request \cup {InvalidRequest}
CommitDecision == {"ASSERT", "SUSPEND", "OUT_OF_SCOPE", "FAIL"}
ResumeVerdict  == {"approve", "reject", "block"}
Phase          == {"approval_pending", "approval_approved",
                   "approval_rejected", "approval_cancelled"}
GateDecision   == {"allow", "ask", "deny"}

(* DecisionLog: the verdict is "none" unless a human resume wrote the log.  *)
Log == [request: AnyRequest, decision: CommitDecision,
        verdict: ResumeVerdict \cup {"none"}]

DecisionEntry(log)     == [kind |-> "decision", log |-> log]
MemoryEntry(r)         == [kind |-> "memory_reference", request |-> r]
GateEntry(c, d)        == [kind |-> "approval_gate", command |-> c, gate |-> d]
LifecycleEntry(c, p, k) ==
  [kind |-> "command_lifecycle", command |-> c, phase |-> p, known |-> k]
FeedbackEntry(c, k)    ==
  [kind |-> "executor_feedback", command |-> c, known |-> k]

AuditRecord ==
  [kind: {"decision"}, log: Log]
  \cup [kind: {"memory_reference"}, request: AnyRequest]
  \cup [kind: {"approval_gate"}, command: Command, gate: GateDecision]
  \cup [kind: {"command_lifecycle"}, command: Command, phase: Phase, known: BOOLEAN]
  \cup [kind: {"executor_feedback"}, command: Command, known: BOOLEAN]

TypeOK ==
  /\ state \in {"IDLE", "DECIDED", "SUSPENDED", "AWAITING_RESUME"}
  /\ \E C \in SUBSET Command : inflight \in [C -> Log]
  /\ \E R \in SUBSET AnyRequest : suspended \in [R -> BOOLEAN]
  /\ audit \subseteq AuditRecord /\ dangling \subseteq AuditRecord
  /\ \E C \in SUBSET Command : issued \in [C -> Log]
  /\ healthy \in BOOLEAN

-----------------------------------------------------------------------------
(* Map.set and Map.delete, and their defective forms: a set that forgets the
   other keys, a delete that is left out.                                   *)
PutForgetting(f, x, y) == [z \in {x} |-> y]
DropSkipped(f, x)      == f

Put(f, x, y) == [z \in DOMAIN f \cup {x} |-> IF z = x THEN y ELSE f[z]]
Drop(f, x)   == [z \in DOMAIN f \ {x} |-> f[z]]

Chain == audit \cup dangling      \* all of it

(* audit.append(e) returns.                                                 *)
Append1(e)  == audit' = audit \cup {e} /\ UNCHANGED dangling
Room        == Cardinality(audit) + Cardinality(dangling) + 2 <= MaxAudit

(* One of these appends, the last, throws, and with it the calling method.  *)
Dangle(entries) ==
  /\ dangling' = dangling \cup entries
  /\ Cardinality(dangling') <= MaxDangling

Throws(entries) ==
  /\ Room
  /\ Dangle(entries)
  /\ UNCHANGED <<audit, inflight, suspended, issued, healthy>>

Decided(r) == \E e \in Chain : e.kind = "decision" /\ e.log.request = r
Fresh(c)   == c \in Command \ DOMAIN issued

Init ==
  /\ state = "IDLE"
  /\ inflight = << >>
  /\ suspended = << >>
  /\ audit = {} /\ dangling = {}
  /\ issued = << >>
  /\ healthy = TRUE

(* Emitting command c under log: inflight.set(command.id, log).             *)
Emit(c, log) ==
  /\ Fresh(c)
  /\ issued' = Put(issued, c, log)
  /\ inflight' = Put(inflight, c, log)

(* audit.append(log) followed by captureMemoryReference(log): the memory
   keeps ASSERT logs only, and may be absent, full or failing.              *)
DecisionRecords(log, captured) ==
  {DecisionEntry(log)}
  \cup (IF captured /\ log.decision = "ASSERT" THEN {MemoryEntry(log.request)} ELSE {})

RecordDecision(log) ==
  /\ \E captured \in MemoryCaptures : audit' = audit \cup DecisionRecords(log, captured)
  /\ UNCHANGED dangling

(* Either of the two appends throws.                                        *)
RecordingThrows(log) ==
  \E captured \in MemoryCaptures : Throws(DecisionRecords(log, captured))

-----------------------------------------------------------------------------
Suspension(r) == [request |-> r, decision |-> "SUSPEND", verdict |-> "none"]

(* decide(): a request that fails schema validation.                        *)
RejectMalformed ==
  /\ Room
  /\ Append1(DecisionEntry(Suspension(InvalidRequest)))
  /\ state' = "SUSPENDED"
  /\ suspended' = Put(suspended, InvalidRequest, FALSE)
  /\ UNCHANGED <<inflight, issued, healthy>>

(* decide(): a failed self-health precondition halts every request.         *)
HaltFailSafe(r) ==
  /\ ~healthy /\ ~Decided(r) /\ Room
  /\ Append1(DecisionEntry(Suspension(r)))
  /\ state' = "SUSPENDED"
  /\ suspended' = Put(suspended, r, FALSE)
  /\ UNCHANGED <<inflight, issued, healthy>>

(* Defective: decide() does not ask the execution policy.                   *)
CommitWithoutPolicy(r, scored) ==
  IF ProcessAuthorityViolation(Profile[r]) THEN "FAIL" ELSE scored

(* What decide() commits when the detectors lead to scored.                 *)
CommitOf(r, scored) ==
  IF \/ ProcessAuthorityViolation(Profile[r])
     \/ scored = "ASSERT" /\ ExecutionPolicyViolation(Profile[r])
  THEN "FAIL" ELSE scored

CommitLog(r, scored) ==
  [request |-> r, decision |-> CommitOf(r, scored), verdict |-> "none"]

(* decide(): frame, model, commit, execution policy, audit, then the effect
   of the decision.                                                         *)
Decide(r, scored) ==
  LET decision == CommitOf(r, scored)
      log == CommitLog(r, scored)
  IN /\ healthy /\ ~Decided(r) /\ Room
     /\ RecordDecision(log)
     /\ \/ /\ decision = "ASSERT"
           /\ \E c \in Command : Emit(c, log)
           /\ state' = "DECIDED"
           /\ UNCHANGED suspended
        \/ /\ decision = "SUSPEND"
           /\ suspended' = Put(suspended, r, TRUE)
           /\ state' = "SUSPENDED"
           /\ UNCHANGED <<inflight, issued>>
        \/ /\ decision \in {"OUT_OF_SCOPE", "FAIL"}
           /\ state' = "DECIDED"
           /\ UNCHANGED <<suspended, inflight, issued>>
     /\ UNCHANGED healthy

(* decide() throws out of its append: the request has no decision in effect. *)
DecideThrows(r) ==
  /\ \/ r = InvalidRequest /\ Throws({DecisionEntry(Suspension(r))})
     \/ r \in Request /\ ~Decided(r) /\ ~healthy /\ Throws({DecisionEntry(Suspension(r))})
     \/ /\ r \in Request /\ ~Decided(r) /\ healthy
        /\ \E scored \in CommitDecision :
             RecordingThrows(CommitLog(r, scored))
  /\ UNCHANGED state

(* Defective test: the resume_allowed flag of the entry is ignored.         *)
MayResumeIfHealthy(r) == healthy

(* The condition under which resume() honours a verdict.                    *)
MayResume(r) == suspended[r] /\ healthy

DeniedLog(r, verdict) == [request |-> r, decision |-> "SUSPEND", verdict |-> verdict]

(* resume(): denied for an entry the fail-safe filed, or while it holds.    *)
ResumeDenied(r, verdict) ==
  /\ r \in DOMAIN suspended
  /\ ~MayResume(r)
  /\ Room
  /\ Append1(DecisionEntry(DeniedLog(r, verdict)))
  /\ state' = "SUSPENDED"
  /\ UNCHANGED <<inflight, suspended, issued, healthy>>

(* Defective mapping: the verdict itself stands as the decision.            *)
LiftedVerbatim(verdict) == verdict

Lifted(verdict) ==
  CASE verdict = "approve" -> "ASSERT"
    [] verdict = "reject"  -> "FAIL"
    [] OTHER               -> "OUT_OF_SCOPE"

LiftedLog(r, verdict) ==
  [request |-> r, decision |-> Lifted(verdict), verdict |-> verdict]

(* resume(): the verdict is recorded and the suspension ends.  The command
   an approval builds is not checked against the execution policy again.    *)
Resume(r, verdict) ==
  LET log == LiftedLog(r, verdict)
  IN /\ r \in DOMAIN suspended
     /\ MayResume(r)
     /\ Room
     /\ RecordDecision(log)
     /\ suspended' = Drop(suspended, r)
     /\ state' = "DECIDED"
     /\ IF verdict = "approve"
        THEN \E c \in Command : Emit(c, log)
        ELSE UNCHANGED <<inflight, issued>>
     /\ UNCHANGED healthy

(* resume() throws out of an append: the verdict is in the chain, and the
   request is as suspended as before.                                       *)
ResumeThrows(r, verdict) ==
  /\ r \in DOMAIN suspended
  /\ IF ~MayResume(r) THEN Throws({DecisionEntry(DeniedLog(r, verdict))})
     ELSE IF verdict = "approve" THEN RecordingThrows(LiftedLog(r, verdict))
     ELSE Throws({DecisionEntry(LiftedLog(r, verdict))})
  /\ state' = "AWAITING_RESUME"

-----------------------------------------------------------------------------
(* onApprovalEvaluation(): audit only.                                      *)
OnApprovalEvaluation(c, decision) ==
  /\ Room
  /\ Append1(GateEntry(c, decision))
  /\ UNCHANGED <<state, inflight, suspended, issued, healthy>>

(* onCommandLifecycle(): a refused or cancelled command leaves inflight.    *)
OnCommandLifecycle(c, phase) ==
  /\ Room
  /\ Append1(LifecycleEntry(c, phase, c \in DOMAIN inflight))
  /\ inflight' = IF phase \in {"approval_rejected", "approval_cancelled"}
                 THEN Drop(inflight, c) ELSE inflight
  /\ UNCHANGED <<state, suspended, issued, healthy>>

(* Defective feedback handler: a report also lifts a suspended request.     *)
OnFeedbackLifting(c) ==
  /\ Room
  /\ Append1(FeedbackEntry(c, c \in DOMAIN inflight))
  /\ \E r \in DOMAIN suspended, d \in Command :
       /\ Emit(d, [request |-> r, decision |-> "ASSERT", verdict |-> "none"])
       /\ suspended' = Drop(suspended, r)
  /\ UNCHANGED <<state, healthy>>

(* onFeedback(): recorded whether or not the command is known.              *)
OnFeedback(c) ==
  /\ Room
  /\ Append1(FeedbackEntry(c, c \in DOMAIN inflight))
  /\ inflight' = Drop(inflight, c)
  /\ UNCHANGED <<state, suspended, issued, healthy>>

(* One of the three throws out of its append.                               *)
ReportThrows(entry) == Throws({entry}) /\ UNCHANGED state

(* The audit or memory chain stops verifying.  Nothing in the process
   repairs a chain, and the other preconditions are fixed at construction.  *)
LoseHealth ==
  /\ healthy
  /\ healthy' = FALSE
  /\ UNCHANGED <<state, inflight, suspended, audit, dangling, issued>>

Next ==
  \/ RejectMalformed
  \/ \E r \in Request : HaltFailSafe(r)
  \/ \E r \in Request, scored \in CommitDecision : Decide(r, scored)
  \/ \E r \in AnyRequest, verdict \in ResumeVerdict :
       ResumeDenied(r, verdict) \/ Resume(r, verdict) \/ ResumeThrows(r, verdict)
  \/ \E r \in AnyRequest : DecideThrows(r)
  \/ \E c \in Command, decision \in GateDecision :
       OnApprovalEvaluation(c, decision) \/ ReportThrows(GateEntry(c, decision))
  \/ \E c \in Command, phase \in Phase :
       \/ OnCommandLifecycle(c, phase)
       \/ ReportThrows(LifecycleEntry(c, phase, c \in DOMAIN inflight))
  \/ \E c \in Command : OnFeedback(c) \/ ReportThrows(FeedbackEntry(c, c \in DOMAIN inflight))
  \/ LoseHealth

Spec == Init /\ [][Next]_vars

-----------------------------------------------------------------------------
(* Properties.                                                              *)

(* Every command awaiting feedback is in flight under the very ASSERT log
   its upstream_decision names, that log is in the audit chain, and the
   request it came from is not waiting for a human any more.                *)
InflightIsAsserted ==
  \A c \in DOMAIN inflight :
    /\ c \in DOMAIN issued /\ issued[c] = inflight[c]
    /\ inflight[c].decision = "ASSERT"
    /\ DecisionEntry(inflight[c]) \in audit
    /\ inflight[c].request \notin DOMAIN suspended

(* RESUME is human-only: a command built for a request that was suspended at
   some time was built by an approving human verdict, whatever feedback,
   lifecycle reports or health changes came in between.                     *)
SuspendLiftedByHumanOnly ==
  \A c \in DOMAIN issued :
    (\E e \in Chain : /\ e.kind = "decision"
                      /\ e.log.request = issued[c].request
                      /\ e.log.decision = "SUSPEND")
      => issued[c].verdict = "approve"

(* A request yields at most one command over its whole life, however often
   it is decided, resumed or denied.                                        *)
OneCommandPerRequest ==
  \A c, d \in DOMAIN issued : issued[c].request = issued[d].request => c = d

(* A request a human rejected or blocked, or the policy failed, never has a
   command.  Only a refusal whose call threw can be overruled, and by nothing
   but another verdict of a human.                                          *)
RefusedHasNoCommand ==
  \A c \in DOMAIN issued, e \in Chain :
    e.kind = "decision" /\ e.log.request = issued[c].request =>
      \/ e.log.decision \in {"ASSERT", "SUSPEND"}
      \/ e \notin audit /\ issued[c].verdict = "approve"

(* No command, not even one a human approved out of a suspension, stands for
   an actor that its process does not admit.                                *)
CommandsHaveProcessAuthority ==
  \A c \in DOMAIN issued : ~ProcessAuthorityViolation(Profile[issued[c].request])

(* A command decide() emitted without a human obeys the execution policy of
   its process.                                                             *)
DirectCommandsObeyPolicy ==
  \A c \in DOMAIN issued :
    issued[c].verdict = "none" => ~ExecutionPolicyViolation(Profile[issued[c].request])

(* A command rests on the decision it names: one ASSERT for its request and no
   other command, no refusal by a call that returned, an actor its process
   admits, and, unless a human lifted it, the policy of that process.        *)
CommandsRestOnDecisions ==
  /\ InflightIsAsserted /\ OneCommandPerRequest /\ RefusedHasNoCommand
  /\ CommandsHaveProcessAuthority /\ DirectCommandsObeyPolicy

(* README.md, Architecture: process execution-policy enforcement stands
   between the commit and the approval gate, for every command.             *)
CommandsObeyExecutionPolicy ==
  \A c \in DOMAIN issued : ~ExecutionPolicyViolation(Profile[issued[c].request])

(* The audit chain attributes at most one end to a command: no executor
   feedback is credited to a command after its approval was refused.  A
   second one needs a first whose call threw before it closed the command.  *)
OneAttributedEnd ==
  \A c \in Command :
    LET refused == \E p \in {"approval_rejected", "approval_cancelled"} :
                      LifecycleEntry(c, p, TRUE) \in audit
        fedback == FeedbackEntry(c, TRUE) \in audit
    IN /\ ~(refused /\ fedback)
       /\ c \in DOMAIN inflight => ~refused /\ ~fedback

(* An entry the fail-safe or the input boundary filed is never lifted nor
   made resumable, and no step issues a command once health is lost.        *)
FailSafeHolds ==
  [][/\ \A r \in DOMAIN suspended :
          ~suspended[r] => r \in DOMAIN suspended' /\ ~suspended'[r]
     /\ ~healthy => issued' = issued]_vars

(* A suspension ends only by a step that records a human verdict on it:
   executor reports do not end it, nor does a call that throws.             *)
SuspensionEndsByVerdict ==
  [][\A r \in DOMAIN suspended \ DOMAIN suspended' :
       \E v \in ResumeVerdict :
         DecisionEntry([request |-> r, decision |-> Lifted(v), verdict |-> v])
           \in audit' \ audit]_vars
=============================================================================
