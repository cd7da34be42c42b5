-------------------------- MODULE ApprovalGateway --------------------------
(***************************************************************************)
(* The gateway's path from an inbound request to an executed command       *)
(* (serve.ts: handler, executeAndEcho, resumePendingApproval, onResume),   *)
(* composed with HDS-BRAIN, the approval policy and the one-time tokens of *)
(* the WebChat resume surface.                                             *)
(*                                                                         *)
(* The gateway is one Node.js process: code between two awaits is atomic   *)
(* and is one action; at an await any other handler may run.  What a       *)
(* handler awaits is one of three sets: ids whose token is being issued,   *)
(* human verdicts between the token check and the verdict's effect, and    *)
(* commands inside the executor.                                           *)
(*                                                                         *)
(* A call of the controller that throws (HdsController) ends the handler   *)
(* that made it: a command already emitted then stays in flight for good.  *)
(***************************************************************************)
EXTENDS HdsController, ApprovalPolicy

CONSTANTS
  Requester,      \* who sent a request: [Request -> actor]
  Target,         \* what its command aims at: [Request -> target]
  Human,          \* the actor name the resume surface reports
  DefaultMode,    \* approval.default_mode
  BootGrants,     \* what the grant file may hold at start
  DiskMayFail     \* may writing the grant file throw?

ASSUME GatewayAssumption ==
  /\ AnyRequest \cap Command = {}       \* distinct UUIDs
  /\ "boot" \notin Command
  /\ DefaultMode \in Mode
  /\ DiskMayFail \in BOOLEAN
  /\ \A r \in Request : Target[r] # "none"     \* scopeFromCommand always names one
  /\ \A stored \in BootGrants :                \* a parsed JSON array
       /\ stored \in Seq({stored[i] : i \in DOMAIN stored})
       /\ \A i \in DOMAIN stored :
            stored[i].from = "boot" /\ IsFiniteSet(stored[i].grant.caps)

VARIABLES
  issuing,    \* ids of requests and commands awaiting a resume token
  tokens,     \* live tokens, named by the id they are bound to
  pending,    \* keys of pendingApprovals
  verdicts,   \* verdicts whose token was honoured, not yet applied
  executing,  \* commands inside executor.execute
  ran,        \* commands that ever entered it
  consented,  \* commands a human approved by id
  grants,     \* approval.store, in order of creation
  recorded,   \* commands with a grant_created authority event
  failures    \* commands, as policy sees them, that the failure memory knows

gatewayVars == <<issuing, tokens, pending, verdicts, executing, ran,
                 consented, grants, recorded, failures>>
allVars == <<vars, gatewayVars>>

Id == Request \cup Command
Verdict == [id: Id, verdict: ResumeVerdict, remember: Mode \cup {"no"},
            stage: {"pending", "hds"}]

-----------------------------------------------------------------------------
(* The command of a request, and who it is evaluated for: the requester, or
   the human who lifted the request out of a suspension.                    *)

Commanded == [r \in Request |-> BuildCommand(Profile[r])]
IsPath(r) == Commanded[r].tool \in {"file_search", "file_write", "file_edit"}
IsScheduleMutation(r) == Commanded[r].tool \in ScheduleMutationTools

PolicyCommand ==
  [r \in Request |->
     [ type |-> Commanded[r].type, tool |-> Commanded[r].tool,
       caps |-> Commanded[r].caps, isPath |-> IsPath(r),
       target |-> IF Commanded[r].type = "tool_call" THEN Target[r]
                  ELSE Commanded[r].type ]]

ContextFor ==
  [r \in Request |-> [lifted \in BOOLEAN |->
     Context(PolicyCommand[r], IF lifted THEN Human ELSE Requester[r])]]
ContextOf(log) == ContextFor[log.request][log.verdict # "none"]

StoredGrants == [i \in DOMAIN grants |-> grants[i].grant]
Evaluation(log) == Evaluate(ContextOf(log), SystemGrants \o StoredGrants, DefaultMode, 0)

(* evaluateCommandGate: the signature of an earlier failure of such a command
   may stop it or send it to a human.                                       *)
FailureGate(r) ==
  IF PolicyCommand[r] \in failures THEN {"pass", "require_approval", "block"} ELSE {"pass"}

Refused(c)  == LifecycleEntry(c, "approval_rejected", TRUE)
Approved(c) == LifecycleEntry(c, "approval_approved", TRUE)

GatewayInit ==
  /\ Init
  /\ issuing = {} /\ tokens = {} /\ pending = {} /\ verdicts = {}
  /\ executing = {} /\ ran = {} /\ consented = {}
  /\ grants \in BootGrants /\ recorded = {} /\ failures = {}

-----------------------------------------------------------------------------
(* executeAndEcho up to its first await, for a command just emitted: the
   failure-memory gate, the policy evaluation, the schedule preparation.
   before is what the same turn has appended to the audit chain so far.     *)

Start(c) ==
  /\ executing' = executing \cup {c}
  /\ ran' = ran \cup {c}

TurnAway(c, entries) ==
  /\ audit' = audit \cup entries \cup {Refused(c)}
  /\ UNCHANGED <<dangling, inflight, issuing, executing, ran>>

(* Defective: no return after the approval request, so the command runs.    *)
AskHumanAndRun(c, log, entries) ==
  /\ audit' = audit \cup entries \cup {LifecycleEntry(c, "approval_pending", TRUE)}
  /\ UNCHANGED dangling
  /\ inflight' = Put(inflight, c, log)
  /\ issuing' = issuing \cup {c}
  /\ Start(c)

AskHuman(c, log, entries) ==
  /\ audit' = audit \cup entries \cup {LifecycleEntry(c, "approval_pending", TRUE)}
  /\ inflight' = Put(inflight, c, log)
  /\ issuing' = issuing \cup {c}
  /\ UNCHANGED <<dangling, executing, ran>>

RunAtOnce(c, log, entries) ==
  /\ audit' = audit \cup entries \cup {Approved(c)}
  /\ inflight' = Put(inflight, c, log)
  /\ Start(c)
  /\ UNCHANGED <<dangling, issuing>>

Submit(c, log, before) ==
  LET evaluation == Evaluation(log)
      seen == before \cup {GateEntry(c, evaluation)}
  IN /\ Fresh(c)
     /\ issued' = Put(issued, c, log)
     /\ \E gate \in FailureGate(log.request) :
          CASE gate = "block"      -> TurnAway(c, before)
            [] gate # "block" /\ evaluation = "deny" -> TurnAway(c, seen)
            [] gate = "pass" /\ evaluation = "allow" -> RunAtOnce(c, log, seen)
            [] OTHER -> \/ AskHuman(c, log, seen)
                        \/ /\ IsScheduleMutation(log.request)   \* not prepared
                           /\ TurnAway(c, seen)

(* One of its calls throws: the first it makes, or the one that would record
   what becomes of the command.                                             *)
SubmitThrows(c, log, before) ==
  LET evaluation == Evaluation(log)
      gateEntry == GateEntry(c, evaluation)
  IN /\ Fresh(c)
     /\ issued' = Put(issued, c, log)
     /\ inflight' = Put(inflight, c, log)
     /\ \E gate \in FailureGate(log.request) :
          \/ /\ audit' = audit \cup before
             /\ Dangle({IF gate = "block" THEN Refused(c) ELSE gateEntry})
          \/ /\ gate # "block"
             /\ audit' = audit \cup before \cup {gateEntry}
             /\ CASE evaluation = "deny" -> Dangle({Refused(c)})
                  [] gate = "pass" /\ evaluation = "allow" -> Dangle({Approved(c)})
                  [] OTHER -> \/ Dangle({LifecycleEntry(c, "approval_pending", TRUE)})
                              \/ IsScheduleMutation(log.request) /\ Dangle({Refused(c)})
     /\ UNCHANGED <<issuing, executing, ran>>

-----------------------------------------------------------------------------
(* handler(): one inbound request, up to its first await.                   *)

ReceiveMalformed == RejectMalformed /\ UNCHANGED gatewayVars

ReceiveHalted(r) ==
  /\ HaltFailSafe(r)
  /\ issuing' = issuing \cup {r}
  /\ UNCHANGED <<tokens, pending, verdicts, executing, ran, consented,
                 grants, recorded, failures>>

ReceiveWithoutCommand(r, scored) ==
  /\ CommitOf(r, scored) # "ASSERT"
  /\ Decide(r, scored)
  /\ issuing' = IF CommitOf(r, scored) = "SUSPEND" THEN issuing \cup {r} ELSE issuing
  /\ UNCHANGED <<tokens, pending, verdicts, executing, ran, consented,
                 grants, recorded, failures>>

ReceiveCommand(r, c) ==
  LET log == [request |-> r, decision |-> "ASSERT", verdict |-> "none"]
  IN /\ healthy /\ ~Decided(r)
     /\ CommitOf(r, "ASSERT") = "ASSERT"
     /\ state' = "DECIDED"
     /\ \E captured \in MemoryCaptures :
          \/ Submit(c, log, DecisionRecords(log, captured))
          \/ SubmitThrows(c, log, DecisionRecords(log, captured))
     /\ UNCHANGED <<suspended, healthy, tokens, pending, verdicts, consented,
                    grants, recorded, failures>>

ReceiveThrows(r) == DecideThrows(r) /\ UNCHANGED gatewayVars

(* Defective: the command is never entered into pendingApprovals.           *)
IssueTokenUnlisted(id) ==
  /\ id \in issuing
  /\ issuing' = issuing \ {id}
  /\ tokens' = tokens \cup {id}
  /\ UNCHANGED <<vars, pending, verdicts, executing, ran, consented, grants,
                 recorded, failures>>

(* issueResumeApprovalToken() resolves.  The id of a command joins
   pendingApprovals in the same turn; the token is dispatched to the user.  *)
IssueToken(id) ==
  /\ id \in issuing
  /\ issuing' = issuing \ {id}
  /\ tokens' = tokens \cup {id}
  /\ pending' = IF id \in Command THEN pending \cup {id} ELSE pending
  /\ UNCHANGED <<vars, verdicts, executing, ran, consented, grants, recorded, failures>>

(* A token expires, is evicted, or is burned by presenting it for another id. *)
LoseToken(id) ==
  /\ id \in tokens
  /\ tokens' = tokens \ {id}
  /\ UNCHANGED <<vars, issuing, pending, verdicts, executing, ran, consented,
                 grants, recorded, failures>>

(* Defective: the spelling of the verdict is not checked.                   *)
PresentTokenUnchecked(id, verdict, remember) ==
  /\ id \in tokens
  /\ tokens' = tokens \ {id}
  /\ verdicts' = verdicts \cup
       {[id |-> id, verdict |-> "cancel", remember |-> remember, stage |-> "pending"]}
  /\ UNCHANGED <<vars, issuing, pending, executing, ran, consented, grants,
                 recorded, failures>>

PresentTokenKeeping(id, verdict, remember) ==     \* defective: it may be used again
  /\ id \in tokens
  /\ remember # "no" => verdict = "approve" /\ id \in Command
  /\ verdicts' = verdicts \cup
       {[id |-> id, verdict |-> verdict, remember |-> remember, stage |-> "pending"]}
  /\ UNCHANGED <<vars, issuing, tokens, pending, executing, ran, consented, grants,
                 recorded, failures>>

(* POST /resume or /approval/:id with the token bound to that id.           *)
PresentToken(id, verdict, remember) ==
  /\ id \in tokens
  /\ remember # "no" => verdict = "approve" /\ id \in Command
  /\ tokens' = tokens \ {id}
  /\ verdicts' = verdicts \cup
       {[id |-> id, verdict |-> verdict, remember |-> remember, stage |-> "pending"]}
  /\ UNCHANGED <<vars, issuing, pending, executing, ran, consented, grants,
                 recorded, failures>>

-----------------------------------------------------------------------------
(* resumePendingApproval(): a verdict on a pending command.                 *)

TakeKeeping(v) ==     \* defective: pendingApprovals.delete is missing
  /\ v \in verdicts /\ v.stage = "pending" /\ v.id \in pending
  /\ verdicts' = verdicts \ {v}
  /\ UNCHANGED pending

Take(v) ==
  /\ v \in verdicts /\ v.stage = "pending" /\ v.id \in pending
  /\ verdicts' = verdicts \ {v}
  /\ pending' = pending \ {v.id}

RefusePending(v) ==
  /\ Take(v)
  /\ \/ v.verdict # "approve"
     \/ IsScheduleMutation(issued[v.id].request)      \* its preparation timed out
  /\ \/ /\ audit' = audit \cup {Refused(v.id)}
        /\ inflight' = Drop(inflight, v.id)
        /\ UNCHANGED dangling
     \/ Dangle({Refused(v.id)}) /\ UNCHANGED <<audit, inflight>>
  /\ UNCHANGED <<state, suspended, issued, healthy, issuing, tokens, executing,
                 ran, consented, grants, recorded, failures>>

Remembering(v, mode) ==
  LET log == issued[v.id]
      grant == RememberedGrant(ContextOf(log), IsPath(log.request), mode, Never)
  IN grants' = Append(grants, [grant |-> grant, from |-> v.id])

(* approval.remember() throws: the grant is in memory, the file is not
   written, and the handler ends before the command is approved.  The same
   is left when the record of the grant is what throws.                     *)
LoseVerdict(v) ==
  /\ DiskMayFail /\ v.remember # "no" /\ v.verdict = "approve"
  /\ Take(v)
  /\ Remembering(v, v.remember)
  /\ UNCHANGED <<vars, issuing, tokens, executing, ran, consented, recorded, failures>>

(* executeAndEcho(skip_approval): only the failure memory may still object. *)
ReleaseBlocked(c, gate) ==     \* defective: no return after the block
  /\ audit' = audit \cup {Approved(c)} \cup (IF gate = "block" THEN {Refused(c)} ELSE {})
  /\ Start(c)
  /\ UNCHANGED <<dangling, inflight>>

Release(c, gate) ==
  IF gate = "block"
  THEN /\ audit' = audit \cup {Approved(c), Refused(c)}
       /\ inflight' = Drop(inflight, c)
       /\ UNCHANGED <<dangling, executing, ran>>
  ELSE /\ audit' = audit \cup {Approved(c)}
       /\ Start(c)
       /\ UNCHANGED <<dangling, inflight>>

ReleaseThrows(c, gate) ==
  /\ \/ Dangle({Approved(c)}) /\ UNCHANGED audit
     \/ gate = "block" /\ Dangle({Refused(c)}) /\ audit' = audit \cup {Approved(c)}
  /\ UNCHANGED <<inflight, executing, ran>>

ApprovePending(v) ==
  /\ v.verdict = "approve"
  /\ Take(v)
  /\ consented' = consented \cup {v.id}
  /\ IF v.remember = "no" THEN UNCHANGED <<grants, recorded>>
     ELSE /\ Remembering(v, v.remember)
          /\ recorded' = recorded \cup {v.id}
  /\ \E gate \in FailureGate(issued[v.id].request) :
       Release(v.id, gate) \/ ReleaseThrows(v.id, gate)
  /\ UNCHANGED <<state, suspended, issued, healthy, issuing, tokens, failures>>

(* The id is no pending command: resumePendingApproval() resolves to null.  *)
PassOn(v) ==
  /\ v \in verdicts /\ v.stage = "pending" /\ v.id \notin pending
  /\ verdicts' = (verdicts \ {v}) \cup {[v EXCEPT !.stage = "hds"]}
  /\ UNCHANGED <<vars, issuing, tokens, pending, executing, ran, consented,
                 grants, recorded, failures>>

(* onResume() after that await: hds.resume(), which throws for an unknown id. *)
ResumeSuspended(v) ==
  LET log == [request |-> v.id, decision |-> "ASSERT", verdict |-> "approve"]
  IN /\ v \in verdicts /\ v.stage = "hds"
     /\ verdicts' = verdicts \ {v}
     /\ \/ /\ v.id \notin DOMAIN suspended
           /\ UNCHANGED <<vars, issuing, executing, ran>>
        \/ /\ v.id \in AnyRequest
           /\ \/ ResumeDenied(v.id, v.verdict)
              \/ v.verdict # "approve" /\ Resume(v.id, v.verdict)
              \/ ResumeThrows(v.id, v.verdict)
           /\ UNCHANGED <<issuing, executing, ran>>
        \/ /\ v.verdict = "approve"
           /\ v.id \in DOMAIN suspended /\ MayResume(v.id)
           /\ suspended' = Drop(suspended, v.id)
           /\ state' = "DECIDED"
           /\ \E c \in Command, captured \in MemoryCaptures :
                \/ Submit(c, log, DecisionRecords(log, captured))
                \/ SubmitThrows(c, log, DecisionRecords(log, captured))
           /\ UNCHANGED healthy
     /\ UNCHANGED <<tokens, pending, consented, grants, recorded, failures>>

-----------------------------------------------------------------------------
(* executor.execute() resolves: feedback, and a signature of a failure.     *)
Finish(c, succeeded) ==
  /\ c \in executing
  /\ executing' = executing \ {c}
  /\ audit' = audit \cup {FeedbackEntry(c, c \in DOMAIN inflight)}
  /\ inflight' = Drop(inflight, c)
  /\ failures' = IF succeeded THEN failures
                 ELSE failures \cup {PolicyCommand[issued[c].request]}
  /\ UNCHANGED <<state, suspended, dangling, issued, healthy, issuing, tokens,
                 pending, verdicts, ran, consented, grants, recorded>>

(* Its feedback throws: the signature is not kept either.                   *)
FinishThrows(c) ==
  /\ c \in executing
  /\ executing' = executing \ {c}
  /\ Dangle({FeedbackEntry(c, c \in DOMAIN inflight)})
  /\ UNCHANGED <<state, inflight, suspended, audit, issued, healthy, issuing, tokens,
                 pending, verdicts, ran, consented, grants, recorded, failures>>

GatewayLoseHealth == LoseHealth /\ UNCHANGED gatewayVars

ApplyVerdict(v) ==
  RefusePending(v) \/ LoseVerdict(v) \/ ApprovePending(v) \/ PassOn(v) \/ ResumeSuspended(v)

GatewayNext ==
  \/ ReceiveMalformed
  \/ \E r \in AnyRequest : ReceiveThrows(r)
  \/ \E r \in Request : ReceiveHalted(r)
  \/ \E r \in Request, scored \in CommitDecision : ReceiveWithoutCommand(r, scored)
  \/ \E r \in Request, c \in Command : ReceiveCommand(r, c)
  \/ \E id \in Id : IssueToken(id) \/ LoseToken(id)
  \/ \E id \in Id, verdict \in ResumeVerdict,
        remember \in {"no", "remember_this_decision", "full_access"} :
        PresentToken(id, verdict, remember)
  \/ \E v \in verdicts : ApplyVerdict(v)
  \/ \E c \in Command, succeeded \in BOOLEAN : Finish(c, succeeded)
  \/ \E c \in Command : FinishThrows(c)
  \/ GatewayLoseHealth

GatewaySpec == GatewayInit /\ [][GatewayNext]_allVars

(* Promises the process itself resolves: tokens get issued, honoured verdicts
   get applied, and a command in the executor ends (its timeout fires).
   Nothing obliges a human to answer or a user to send.                     *)
Fairness ==
  /\ \A id \in Id : WF_allVars(IssueToken(id))
  /\ \A c \in Command : WF_allVars(Finish(c, TRUE) \/ Finish(c, FALSE) \/ FinishThrows(c))
  /\ WF_allVars(\E v \in verdicts : ApplyVerdict(v))

FairGatewaySpec == GatewaySpec /\ Fairness
-----------------------------------------------------------------------------
(* Properties.                                                              *)

GatewayTypeOK ==
  /\ issuing \subseteq Id /\ tokens \subseteq Id
  /\ pending \subseteq Command /\ verdicts \subseteq Verdict
  /\ executing \subseteq ran /\ ran \subseteq DOMAIN issued
  /\ consented \subseteq DOMAIN issued /\ recorded \subseteq consented
  /\ \A i \in DOMAIN grants : grants[i].from \in Command \cup {"boot"}

FinalReviewOf(c) == FinalReviewRequired(ContextOf(issued[c]))

(* What the authority plane promises each command (AuthorityBoundary): its
   path through tokens, verdicts, remembered grants, the failure memory and
   the executor never runs it twice, never runs it after a refusal, and runs
   it without waiting for a human only if it needs no final review.         *)
StatusOf(c) ==
  CASE c \notin DOMAIN issued -> "idle"
    [] c \in executing        -> "running"
    [] c \in ran \ executing  -> "finished"
    [] c \in DOMAIN inflight \ ran -> "waiting"
    [] OTHER                  -> "refused"

Boundary == INSTANCE AuthorityBoundary
  WITH status <- [c \in Command |-> StatusOf(c)],
       final  <- {c \in DOMAIN issued : FinalReviewOf(c)}

KeepsAuthorityBoundary == Boundary!Spec

(* README.md:325, approval modes: full access and remembered grants never
   replace the owner's confirmation of an operation under final review.     *)
FinalReviewNeedsConsent ==
  \A c \in ran : FinalReviewOf(c) => c \in consented

(* A command a human may still approve is one the controller still holds in
   flight, with its approval_pending record written and no end recorded.    *)
PendingIsLive ==
  \A c \in pending \cup (issuing \cap Command) :
    /\ c \in DOMAIN inflight \ ran
    /\ LifecycleEntry(c, "approval_pending", TRUE) \in audit
    /\ Refused(c) \notin Chain

(* The audit chain tells what happened: what it says was refused never ran,
   what ran is there as approved, and feedback is there iff the run ended.  *)
AuditMatchesExecution ==
  \A c \in Command :
    /\ Refused(c) \in Chain => c \notin ran
    /\ c \in ran => Approved(c) \in audit
    /\ FeedbackEntry(c, TRUE) \in Chain <=> c \in ran \ executing

(* A refusal stands, whether or not its call threw.  The controller would let
   another verdict overrule one that threw (RefusedHasNoCommand); the gateway
   has no way to hand it over, since the token of a request is issued once and
   honoured once.                                                           *)
RefusalsStand ==
  \A c \in DOMAIN issued, e \in Chain :
    e.kind = "decision" /\ e.log.request = issued[c].request =>
      e.log.decision \in {"ASSERT", "SUSPEND"}

(* The grant at position i lets ctx run: one of the grant file that allows
   it, or one a human made while approving a command of the same actor, and
   then either a grant of full access or one for the same operation on the
   same target.  (The store reads the name "*" as everyone's.)              *)
Covers(i, ctx) ==
  IF grants[i].from = "boot"
  THEN grants[i].grant.decision = "allow" /\ GrantMatches(grants[i].grant, ctx, 0)
  ELSE /\ grants[i].from \in DOMAIN issued
       /\ LET from == ContextOf(issued[grants[i].from])
          IN /\ from.actor \in {"*", ctx.actor}
             /\ \/ grants[i].grant.operation = "*"
                \/ from.operation = ctx.operation /\ from.target = ctx.target

Covered(log) ==
  LET ctx == ContextOf(log)
  IN ctx.operation \in {"llm.call", "noop"} \/ \E i \in DOMAIN grants : Covers(i, ctx)

(* When the default is to ask, a command that ran on nobody's approval of it
   is a bare answer of the model, or ran on a grant that covers it.         *)
UnaskedRunsAreCovered ==
  DefaultMode # "full_access" => \A c \in ran \ consented : Covered(issued[c])

(* Once a token for a pending command is honoured, the command is settled:
   it leaves the in-flight set, refused or run to its end.                  *)
HonouredVerdictSettles ==
  \A c \in Command :
    (c \in pending /\ \E v \in verdicts : v.id = c) ~> (c \notin DOMAIN inflight)

(* No emitted command is forgotten while nobody waits for it: it is settled
   or comes to wait for a human.                                            *)
CommandsSettleOrWait ==
  \A c \in Command :
    (c \in DOMAIN inflight) ~> (c \notin DOMAIN inflight \/ c \in pending)
=============================================================================
