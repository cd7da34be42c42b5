----------------------- MODULE ApprovalGatewayProofs -----------------------
(***************************************************************************)
(* Proofs about ApprovalGateway for every value of its constants: whatever *)
(* the requests carry, the grants stored at start, the default mode, and   *)
(* the failures of the disk.                                               *)
(*                                                                         *)
(* The parts: final review waits for consent; the life of a command and    *)
(* what the audit chain says of it; which grant speaks, and for whom; the  *)
(* ids and the books; the theorems; the authority boundary.                *)
(***************************************************************************)
EXTENDS ApprovalGateway, FiniteSetTheorems, SequenceTheorems,
        WellFoundedInduction, TLAPS

-----------------------------------------------------------------------------
(* The policy.                                                              *)

(* Under final review no grant and no mode allows an operation by itself.   *)
LEMMA FinalReviewIsNeverAllowed ==
  ASSUME NEW ctx, NEW stored, NEW mode, NEW now, FinalReviewRequired(ctx)
  PROVE  Evaluate(ctx, stored, mode, now) # "allow"
BY DEF Evaluate

(* A denial that speaks for an operation stands, whatever its risk and mode. *)
LEMMA DenialStands ==
  ASSUME NEW ctx, NEW stored, NEW mode, NEW now, Matching(stored, ctx, now) # {},
         stored[CHOOSE i \in DOMAIN stored : Speaks(i, stored, ctx, now)].decision = "deny"
  PROVE  Evaluate(ctx, stored, mode, now) = "deny"
BY DEF Evaluate

-----------------------------------------------------------------------------
(* The inductive invariant: what waits for a human or ever ran was emitted,
   and its log, hence its context, is settled from then on.                 *)
ConsentInv ==
  /\ issuing \cap Command \subseteq DOMAIN issued
  /\ pending \subseteq DOMAIN issued
  /\ ran \subseteq DOMAIN issued
  /\ FinalReviewNeedsConsent

(* A new command adds one log and touches no other.                         *)
LEMMA IssuedGrows ==
  ASSUME NEW c, NEW log, c \notin DOMAIN issued, issued' = Put(issued, c, log)
  PROVE  /\ DOMAIN issued' = DOMAIN issued \cup {c} /\ issued'[c] = log
         /\ \A d \in DOMAIN issued : issued'[d] = issued[d]
BY DEF Put

(* executeAndEcho() up to its first await, or to the call that throws.      *)
Submits(c, log, before) == Submit(c, log, before) \/ SubmitThrows(c, log, before)

(* Steps that emit nothing and start only what a human approved.            *)
LEMMA ConsentedStep ==
  ASSUME ConsentInv, UNCHANGED issued,
         issuing' \cap Command \subseteq DOMAIN issued,
         pending' \subseteq DOMAIN issued,
         ran' \subseteq ran \cup (consented' \cap DOMAIN issued),
         consented \subseteq consented'
  PROVE  ConsentInv'
<1>1. \A c : FinalReviewOf(c)' <=> FinalReviewOf(c)
  BY DEF FinalReviewOf, ContextOf
<1>2. FinalReviewNeedsConsent'
  BY <1>1 DEF ConsentInv, FinalReviewNeedsConsent
<1> QED BY <1>2 DEF ConsentInv

(* executeAndEcho() on a new command runs it at once only if the policy
   allows it, hence never under final review.                               *)
LEMMA SubmitStep ==
  ASSUME ConsentInv, NEW c \in Command, NEW log, NEW before, Submits(c, log, before),
         UNCHANGED <<pending, consented>>
  PROVE  ConsentInv'
<1>1. /\ DOMAIN issued' = DOMAIN issued \cup {c} /\ issued'[c] = log
      /\ \A d \in DOMAIN issued : issued'[d] = issued[d]
  BY IssuedGrows DEF Submits, Submit, SubmitThrows, Fresh
<1>2. \/ UNCHANGED <<issuing, ran>>
      \/ issuing' = issuing \cup {c} /\ UNCHANGED ran
      \/ Evaluation(log) = "allow" /\ ran' = ran \cup {c} /\ UNCHANGED issuing
  BY DEF Submits, Submit, SubmitThrows, TurnAway, AskHuman, RunAtOnce, Start
<1>3. issuing' \cap Command \subseteq DOMAIN issued' /\ pending' \subseteq DOMAIN issued'
      /\ ran' \subseteq DOMAIN issued'
  BY <1>1, <1>2 DEF ConsentInv
<1>4. ASSUME NEW d \in ran', FinalReviewOf(d)' PROVE d \in consented'
  <2>1. CASE d \in ran
    <3>1. FinalReviewOf(d)
      BY <1>1, <1>4, <2>1 DEF FinalReviewOf, ContextOf, ConsentInv
    <3> QED BY <2>1, <3>1 DEF ConsentInv, FinalReviewNeedsConsent
  <2>2. CASE d \notin ran
    <3>1. d = c /\ Evaluation(log) = "allow"
      BY <1>2, <1>4, <2>2
    <3>2. FinalReviewRequired(ContextOf(log))
      BY <1>1, <1>4, <3>1 DEF FinalReviewOf, ContextOf
    <3> QED BY <3>1, <3>2, FinalReviewIsNeverAllowed DEF Evaluation
  <2> QED BY <2>1, <2>2
<1>5. FinalReviewNeedsConsent'
  BY <1>4 DEF FinalReviewNeedsConsent
<1> QED BY <1>3, <1>5 DEF ConsentInv

(* Every step of the gateway keeps the invariant.                           *)
LEMMA ConsentStep == ConsentInv /\ [GatewayNext]_allVars => ConsentInv'
<1> SUFFICES ASSUME ConsentInv, [GatewayNext]_allVars PROVE ConsentInv'
  OBVIOUS
<1>a. /\ issuing \cap Command \subseteq DOMAIN issued
      /\ pending \subseteq DOMAIN issued
      /\ Request \cap Command = {}
  BY GatewayAssumption DEF ConsentInv, AnyRequest
<1>1. CASE ReceiveMalformed
  BY <1>1, <1>a, ConsentedStep DEF ReceiveMalformed, RejectMalformed, gatewayVars
<1>2. ASSUME NEW r \in Request, ReceiveHalted(r) PROVE ConsentInv'
  BY <1>2, <1>a, ConsentedStep DEF ReceiveHalted, HaltFailSafe
<1>3. ASSUME NEW r \in Request, NEW scored \in CommitDecision, ReceiveWithoutCommand(r, scored)
      PROVE ConsentInv'
  <2>1. UNCHANGED issued
    BY <1>3 DEF ReceiveWithoutCommand, Decide
  <2> QED BY <1>3, <1>a, <2>1, ConsentedStep DEF ReceiveWithoutCommand
<1>4. ASSUME NEW r \in Request, NEW c \in Command, ReceiveCommand(r, c) PROVE ConsentInv'
  BY <1>4, SubmitStep DEF ReceiveCommand, Submits
<1>5. ASSUME NEW id \in Id, IssueToken(id) PROVE ConsentInv'
  BY <1>5, <1>a, ConsentedStep DEF IssueToken, vars
<1>6. ASSUME NEW id \in Id, LoseToken(id) PROVE ConsentInv'
  BY <1>6, <1>a, ConsentedStep DEF LoseToken, vars
<1>7. ASSUME NEW id \in Id, NEW verdict, NEW remember, PresentToken(id, verdict, remember)
      PROVE ConsentInv'
  BY <1>7, <1>a, ConsentedStep DEF PresentToken, vars
<1>8. ASSUME NEW v \in verdicts, ApplyVerdict(v) PROVE ConsentInv'
  <2>1. CASE RefusePending(v)
    BY <2>1, <1>a, ConsentedStep DEF RefusePending, Take
  <2>2. CASE LoseVerdict(v)
    BY <2>2, <1>a, ConsentedStep DEF LoseVerdict, Take, vars
  <2>3. CASE ApprovePending(v)
    <3>1. v.id \in DOMAIN issued /\ pending' \subseteq pending
      BY <2>3, <1>a DEF ApprovePending, Take
    <3>2. /\ consented' = consented \cup {v.id}
          /\ ran' = ran \/ ran' = ran \cup {v.id}
          /\ UNCHANGED <<issued, issuing>>
      BY <2>3 DEF ApprovePending, Release, ReleaseThrows, Start
    <3> QED BY <1>a, <3>1, <3>2, ConsentedStep
  <2>4. CASE PassOn(v)
    BY <2>4, <1>a, ConsentedStep DEF PassOn, vars
  <2>5. CASE ResumeSuspended(v)
    <3> DEFINE log == [request |-> v.id, decision |-> "ASSERT", verdict |-> "approve"]
    <3>1. UNCHANGED <<pending, consented>>
      BY <2>5 DEF ResumeSuspended
    <3>2. \/ UNCHANGED <<issued, issuing, ran>>
          \/ \E c \in Command, captured \in MemoryCaptures :
               Submits(c, log, DecisionRecords(log, captured))
      BY <2>5 DEF ResumeSuspended, ResumeDenied, Resume, ResumeThrows, RecordingThrows, Throws,
                  Submits, vars
    <3>3. CASE UNCHANGED <<issued, issuing, ran>>
      BY <1>a, <3>1, <3>3, ConsentedStep
    <3>4. CASE \E c \in Command, captured \in MemoryCaptures :
                 Submits(c, log, DecisionRecords(log, captured))
      BY <3>1, <3>4, SubmitStep
    <3> QED BY <3>2, <3>3, <3>4
  <2> QED BY <1>8, <2>1, <2>2, <2>3, <2>4, <2>5 DEF ApplyVerdict
<1>9. ASSUME NEW c \in Command, NEW succeeded \in BOOLEAN, Finish(c, succeeded)
      PROVE ConsentInv'
  BY <1>9, <1>a, ConsentedStep DEF Finish
<1>10. CASE GatewayLoseHealth \/ UNCHANGED allVars
  BY <1>10, <1>a, ConsentedStep DEF GatewayLoseHealth, LoseHealth, allVars, vars, gatewayVars
<1>11. ASSUME NEW r \in AnyRequest, ReceiveThrows(r) PROVE ConsentInv'
  BY <1>11, <1>a, ConsentedStep DEF ReceiveThrows, DecideThrows, RecordingThrows, Throws, gatewayVars
<1>12. ASSUME NEW c \in Command, FinishThrows(c) PROVE ConsentInv'
  BY <1>12, <1>a, ConsentedStep DEF FinishThrows
<1> QED
  BY <1>1, <1>2, <1>3, <1>4, <1>5, <1>6, <1>7, <1>8, <1>9, <1>10, <1>11, <1>12 DEF GatewayNext

(* No command under final review ever enters the executor unless a human
   approved that very command: not by a remembered grant, a full-access
   grant, the default mode, a lifted suspension or a lost file write.       *)
THEOREM ConsentBeforeFinalReview == GatewaySpec => []FinalReviewNeedsConsent
<1>1. GatewayInit => ConsentInv
  BY DEF GatewayInit, Init, ConsentInv, FinalReviewNeedsConsent
<1>2. ConsentInv => FinalReviewNeedsConsent
  BY DEF ConsentInv
<1> QED BY <1>1, <1>2, ConsentStep, PTL DEF GatewaySpec

-----------------------------------------------------------------------------
(* The life of a command, told in sets of commands: those a set of audit
   records says were refused, approved, put to a human, and ended.          *)
RefusedIn(E)  == {c \in Command : Refused(c) \in E}
ApprovedIn(E) == {c \in Command : Approved(c) \in E}
AskedIn(E)    == {c \in Command : LifecycleEntry(c, "approval_pending", TRUE) \in E}
EndedIn(E)    == {c \in Command : FeedbackEntry(c, TRUE) \in E}

TellsNothing(E) == RefusedIn(E) = {} /\ ApprovedIn(E) = {} /\ AskedIn(E) = {} /\ EndedIn(E) = {}

(* Decisions, memory references and gate records tell of no command's life. *)
LEMMA DecisionsTellNothing ==
  ASSUME NEW log, NEW captured, NEW c, NEW gate
  PROVE  /\ TellsNothing({DecisionEntry(log)})
         /\ TellsNothing(DecisionRecords(log, captured))
         /\ TellsNothing({GateEntry(c, gate)})
         /\ TellsNothing({})
<1>1. /\ \A e \in DecisionRecords(log, captured) : e.kind \in {"decision", "memory_reference"}
      /\ DecisionEntry(log).kind = "decision" /\ GateEntry(c, gate).kind = "approval_gate"
  BY DEF DecisionRecords, DecisionEntry, MemoryEntry, GateEntry
<1>2. \A d \in Command :
        /\ Refused(d).kind = "command_lifecycle" /\ Approved(d).kind = "command_lifecycle"
        /\ LifecycleEntry(d, "approval_pending", TRUE).kind = "command_lifecycle"
        /\ FeedbackEntry(d, TRUE).kind = "executor_feedback"
  BY DEF Refused, Approved, LifecycleEntry, FeedbackEntry
<1>3. ASSUME NEW E, \A e \in E : e.kind \in {"decision", "memory_reference", "approval_gate"}
      PROVE  TellsNothing(E)
  BY <1>2, <1>3 DEF TellsNothing, RefusedIn, ApprovedIn, AskedIn, EndedIn
<1>4. QED
  BY <1>1, <1>3

(* A lifecycle or feedback record tells one thing of one command.           *)
LEMMA TellingOne ==
  ASSUME NEW c \in Command
  PROVE  /\ /\ RefusedIn({Refused(c)}) = {c} /\ ApprovedIn({Refused(c)}) = {}
            /\ AskedIn({Refused(c)}) = {} /\ EndedIn({Refused(c)}) = {}
         /\ /\ RefusedIn({Approved(c)}) = {} /\ ApprovedIn({Approved(c)}) = {c}
            /\ AskedIn({Approved(c)}) = {} /\ EndedIn({Approved(c)}) = {}
         /\ LET asked == {LifecycleEntry(c, "approval_pending", TRUE)}
            IN /\ RefusedIn(asked) = {} /\ ApprovedIn(asked) = {}
               /\ AskedIn(asked) = {c} /\ EndedIn(asked) = {}
         /\ LET ended == {FeedbackEntry(c, TRUE)}
            IN /\ RefusedIn(ended) = {} /\ ApprovedIn(ended) = {}
               /\ AskedIn(ended) = {} /\ EndedIn(ended) = {c}
<1> DEFINE Asked(d) == LifecycleEntry(d, "approval_pending", TRUE)
           Ended(d) == FeedbackEntry(d, TRUE)
<1>1. \A d \in Command :
        /\ Refused(d).phase = "approval_rejected" /\ Refused(d).command = d
        /\ Approved(d).phase = "approval_approved" /\ Approved(d).command = d
        /\ Asked(d).phase = "approval_pending" /\ Asked(d).command = d
        /\ Ended(d).kind = "executor_feedback" /\ Ended(d).command = d
        /\ Refused(d).kind = "command_lifecycle" /\ Approved(d).kind = "command_lifecycle"
        /\ Asked(d).kind = "command_lifecycle"
  BY DEF Refused, Approved, LifecycleEntry, FeedbackEntry
<1>a. \A E : /\ RefusedIn(E) = {d \in Command : Refused(d) \in E}
             /\ ApprovedIn(E) = {d \in Command : Approved(d) \in E}
             /\ AskedIn(E) = {d \in Command : Asked(d) \in E}
             /\ EndedIn(E) = {d \in Command : Ended(d) \in E}
  BY DEF RefusedIn, ApprovedIn, AskedIn, EndedIn
<1> HIDE DEF Asked, Ended
<1>2. /\ RefusedIn({Refused(c)}) = {c} /\ ApprovedIn({Refused(c)}) = {}
      /\ AskedIn({Refused(c)}) = {} /\ EndedIn({Refused(c)}) = {}
  BY <1>1, <1>a
<1>3. /\ RefusedIn({Approved(c)}) = {} /\ ApprovedIn({Approved(c)}) = {c}
      /\ AskedIn({Approved(c)}) = {} /\ EndedIn({Approved(c)}) = {}
  BY <1>1, <1>a
<1>4. /\ RefusedIn({Asked(c)}) = {} /\ ApprovedIn({Asked(c)}) = {}
      /\ AskedIn({Asked(c)}) = {c} /\ EndedIn({Asked(c)}) = {}
  BY <1>1, <1>a
<1>5. /\ RefusedIn({Ended(c)}) = {} /\ ApprovedIn({Ended(c)}) = {}
      /\ AskedIn({Ended(c)}) = {} /\ EndedIn({Ended(c)}) = {c}
  BY <1>1, <1>a
<1>6. QED
  BY <1>2, <1>3, <1>4, <1>5 DEF Asked, Ended

(* The commands that wait for a human, or for the token a human will use.   *)
Waiting == pending \cup (issuing \cap Command)

(* A command waits only while the controller holds it and before it ran; it
   is in the executor only while it is held; and the audit chain says of it
   what happened to it, although a record whose call threw says it of a
   command the controller still holds.                                      *)
LifeInv ==
  /\ pending \subseteq Command /\ pending \cap issuing = {}
  /\ DOMAIN inflight \subseteq DOMAIN issued /\ DOMAIN issued \subseteq Command
  /\ ran \subseteq DOMAIN issued
  /\ Waiting \subseteq (DOMAIN inflight \ ran) \cap AskedIn(audit)
  /\ Waiting \cap RefusedIn(Chain) = {}
  /\ executing \subseteq ran \cap DOMAIN inflight
  /\ ran \subseteq ApprovedIn(audit)
  /\ RefusedIn(Chain) \subseteq DOMAIN issued \ ran
  /\ EndedIn(Chain) = ran \ executing

(* The shapes of a step, as far as commands are concerned: what the chain now
   says besides, and what becomes of a command.                             *)
Says(refused, approved, asked, ended) ==
  /\ RefusedIn(Chain') = RefusedIn(Chain) \cup refused
  /\ ApprovedIn(audit) \cup approved \subseteq ApprovedIn(audit')
  /\ AskedIn(audit) \cup asked \subseteq AskedIn(audit')
  /\ EndedIn(Chain') = EndedIn(Chain) \cup ended

SaysNothing == Says({}, {}, {}, {})
MayRefuse(c) == \E refused \in SUBSET {c} : Says(refused, {}, {}, {})

Stays     == DOMAIN inflight' = DOMAIN inflight /\ UNCHANGED <<executing, ran>>
Joins(c)  == DOMAIN inflight' = DOMAIN inflight \cup {c}
Leaves(c) == DOMAIN inflight' = DOMAIN inflight \ {c}
Enters(c) == executing' = executing \cup {c} /\ ran' = ran \cup {c}

Quiet ==
  /\ UNCHANGED issued /\ Stays /\ SaysNothing
  /\ pending' \subseteq Command /\ pending' \cap issuing' = {} /\ Waiting' \subseteq Waiting

Emits(c) ==
  /\ Fresh(c) /\ UNCHANGED pending
  /\ DOMAIN issued' = DOMAIN issued \cup {c}
  /\ \A d \in DOMAIN issued : issued'[d] = issued[d]
  /\ \/ /\ DOMAIN inflight' = DOMAIN inflight \/ Joins(c)
        /\ UNCHANGED <<executing, ran, issuing>> /\ MayRefuse(c)
     \/ /\ Joins(c) /\ UNCHANGED <<executing, ran>>
        /\ issuing' = issuing \cup {c} /\ Says({}, {}, {c}, {})
     \/ /\ Joins(c) /\ Enters(c)
        /\ UNCHANGED issuing /\ Says({}, {c}, {}, {})
        /\ Evaluation(issued'[c]) = "allow"

Settles(c) ==
  /\ c \in pending /\ pending' = pending \ {c} /\ UNCHANGED <<issued, issuing>>
  /\ \/ /\ DOMAIN inflight' = DOMAIN inflight \/ Leaves(c)
        /\ UNCHANGED <<executing, ran>> /\ MayRefuse(c)
     \/ /\ DOMAIN inflight' = DOMAIN inflight /\ Enters(c) /\ Says({}, {c}, {}, {})
        /\ consented' = consented \cup {c}

Ends(c) ==
  /\ c \in executing /\ executing' = executing \ {c}
  /\ DOMAIN inflight' = DOMAIN inflight \/ Leaves(c)
  /\ UNCHANGED <<ran, issued, pending, issuing>> /\ Says({}, {}, {}, {c})

Shaped == Quiet \/ \E c \in Command : Emits(c) \/ Settles(c) \/ Ends(c)

(* A step of one of the shapes keeps the life invariant.                    *)
LEMMA LifeShaped == LifeInv /\ Shaped => LifeInv'
<1> SUFFICES ASSUME LifeInv, Shaped PROVE LifeInv'
  OBVIOUS
<1>1. CASE Quiet
  BY <1>1 DEF LifeInv, Quiet, Stays, SaysNothing, Says
<1>2. ASSUME NEW c \in Command, Emits(c) PROVE LifeInv'
  <2>1. c \notin DOMAIN issued /\ c \in Command
    BY <1>2 DEF Emits, Fresh
  <2>2. CASE /\ DOMAIN inflight' = DOMAIN inflight \/ Joins(c)
             /\ UNCHANGED <<executing, ran, issuing>> /\ MayRefuse(c)
    <3>1. PICK refused \in SUBSET {c} : Says(refused, {}, {}, {})
      BY <2>2 DEF MayRefuse
    <3>2. Waiting' = Waiting /\ c \notin Waiting
      BY <1>2, <2>1, <2>2 DEF LifeInv, Emits, Waiting
    <3> QED BY <1>2, <2>1, <2>2, <3>1, <3>2 DEF LifeInv, Emits, Joins, Says
  <2>3. CASE /\ Joins(c) /\ UNCHANGED <<executing, ran>>
             /\ issuing' = issuing \cup {c} /\ Says({}, {}, {c}, {})
    <3>1. Waiting' = Waiting \cup {c} /\ c \notin pending
      BY <1>2, <2>1, <2>3 DEF Emits, Waiting, LifeInv
    <3> QED BY <1>2, <2>1, <2>3, <3>1 DEF LifeInv, Emits, Joins, Says
  <2>4. CASE Joins(c) /\ Enters(c) /\ UNCHANGED issuing /\ Says({}, {c}, {}, {})
    BY <1>2, <2>1, <2>4 DEF LifeInv, Emits, Joins, Enters, Says, Waiting
  <2> QED BY <1>2, <2>2, <2>3, <2>4 DEF Emits
<1>3. ASSUME NEW c \in Command, Settles(c) PROVE LifeInv'
  <2>1. c \in DOMAIN inflight \ ran /\ c \in DOMAIN issued /\ c \notin issuing /\ c \notin Waiting'
        /\ Waiting' = Waiting \ {c} /\ c \notin RefusedIn(Chain)
    BY <1>3 DEF LifeInv, Settles, Waiting
  <2>2. CASE /\ DOMAIN inflight' = DOMAIN inflight \/ Leaves(c)
             /\ UNCHANGED <<executing, ran>> /\ MayRefuse(c)
    <3>1. PICK refused \in SUBSET {c} : Says(refused, {}, {}, {})
      BY <2>2 DEF MayRefuse
    <3> QED BY <1>3, <2>1, <2>2, <3>1 DEF LifeInv, Settles, Leaves, Says
  <2>3. CASE DOMAIN inflight' = DOMAIN inflight /\ Enters(c) /\ Says({}, {c}, {}, {})
    BY <1>3, <2>1, <2>3 DEF LifeInv, Settles, Enters, Says
  <2> QED BY <1>3, <2>2, <2>3 DEF Settles
<1>4. ASSUME NEW c \in Command, Ends(c) PROVE LifeInv'
  <2>1. Waiting' = Waiting /\ c \in ran /\ c \notin Waiting
    BY <1>4 DEF Ends, Waiting, LifeInv
  <2> QED BY <1>4, <2>1 DEF LifeInv, Ends, Leaves, Says
<1> QED BY <1>1, <1>2, <1>3, <1>4 DEF Shaped

(* What the chain says after a step is what it said, and what was added.    *)
LEMMA WhatIsSaid ==
  ASSUME NEW E, NEW D, audit' = audit \cup E, dangling' = dangling \cup D
  PROVE  Says(RefusedIn(E) \cup RefusedIn(D), ApprovedIn(E), AskedIn(E), EndedIn(E) \cup EndedIn(D))
<1>1. Chain' = Chain \cup E \cup D
  BY DEF Chain
<1> QED BY <1>1 DEF Says, RefusedIn, ApprovedIn, AskedIn, EndedIn

(* A record x appended last, after records E that refuse and end nothing.   *)
LEMMA SaidLast ==
  ASSUME NEW E, RefusedIn(E) = {}, EndedIn(E) = {}, NEW x,
         audit' = audit \cup E \cup {x}, UNCHANGED dangling
  PROVE  \A refused, approved, asked, ended :
           /\ refused = RefusedIn({x}) /\ approved = ApprovedIn({x})
           /\ asked = AskedIn({x}) /\ ended = EndedIn({x})
           => Says(refused, approved, asked, ended)
<1>1. Chain' = Chain \cup E \cup {x}
  BY DEF Chain
<1> QED BY <1>1 DEF Says, RefusedIn, ApprovedIn, AskedIn, EndedIn

(* ... and one whose call threw.                                            *)
LEMMA LostLast ==
  ASSUME NEW E, RefusedIn(E) = {}, EndedIn(E) = {}, NEW x,
         audit' = audit \cup E, dangling' = dangling \cup {x}
  PROVE  \A refused, ended :
           refused = RefusedIn({x}) /\ ended = EndedIn({x}) => Says(refused, {}, {}, ended)
<1>1. Chain' = Chain \cup E \cup {x}
  BY DEF Chain
<1> QED BY <1>1 DEF Says, RefusedIn, ApprovedIn, AskedIn, EndedIn

(* What refuses c at most may refuse it, whatever else it says.             *)
LEMMA AtMostRefused ==
  ASSUME NEW c, NEW refused, NEW approved, NEW asked, Says(refused, approved, asked, {}),
         refused \subseteq {c}
  PROVE  MayRefuse(c)
<1>1. Says(refused, {}, {}, {})
  BY DEF Says
<1> QED BY <1>1 DEF MayRefuse

(* Steps that decide, hand out tokens, take verdicts in or lose them.       *)
LEMMA QuietStep ==
  ASSUME LifeInv, UNCHANGED <<issued, executing, ran>>, DOMAIN inflight' = DOMAIN inflight,
         NEW E, TellsNothing(E), audit' = audit \cup E,
         NEW D, TellsNothing(D), dangling' = dangling \cup D,
         pending' \subseteq Command, pending' \cap issuing' = {}, Waiting' \subseteq Waiting
  PROVE  Shaped
<1>1. SaysNothing
  BY WhatIsSaid DEF SaysNothing, TellsNothing
<1>2. QED
  BY <1>1 DEF Shaped, Quiet, Stays

(* A record that refuses, approves or puts c to a human refuses no other
   command and ends none; nor does a gate record.                           *)
LEMMA OneCommandToldOf ==
  ASSUME NEW c \in Command, NEW gate
  PROVE  \A x \in {Refused(c), Approved(c), LifecycleEntry(c, "approval_pending", TRUE),
                  GateEntry(c, gate)} :
           RefusedIn({x}) \subseteq {c} /\ EndedIn({x}) = {}
<1>1. RefusedIn({GateEntry(c, gate)}) = {} /\ EndedIn({GateEntry(c, gate)}) = {}
  BY DecisionsTellNothing DEF TellsNothing
<1> QED BY <1>1, TellingOne

(* executeAndEcho() up to its first await emits one command: turned away, put
   to a human, or run because the policy allows it; or, when a call throws,
   left behind in flight.                                                   *)
LEMMA SubmitShaped ==
  ASSUME LifeInv, NEW c \in Command, NEW log, NEW captured,
         Submits(c, log, DecisionRecords(log, captured)), UNCHANGED pending
  PROVE  Emits(c)
<1> DEFINE decided == DecisionRecords(log, captured)
           gate == {GateEntry(c, Evaluation(log))}
           gated == decided \cup gate
<1>1. /\ Fresh(c) /\ issued' = Put(issued, c, log) /\ c \notin DOMAIN inflight
      /\ \/ TurnAway(c, decided) \/ TurnAway(c, gated)
         \/ AskHuman(c, log, gated)
         \/ Evaluation(log) = "allow" /\ RunAtOnce(c, log, gated)
         \/ SubmitThrows(c, log, decided)
  BY DEF Submits, Submit, SubmitThrows, Fresh, LifeInv
<1>2. /\ DOMAIN issued' = DOMAIN issued \cup {c} /\ issued'[c] = log
      /\ \A d \in DOMAIN issued : issued'[d] = issued[d]
  BY <1>1 DEF Put, Fresh
<1>3. TellsNothing(decided) /\ TellsNothing(gated) /\ TellsNothing({})
  BY DecisionsTellNothing DEF TellsNothing, RefusedIn, ApprovedIn, AskedIn, EndedIn
<1>a. UNCHANGED dangling => dangling' = dangling \cup {}
  OBVIOUS
<1> HIDE DEF decided, gated
<1>4. ASSUME NEW E, TellsNothing(E), TurnAway(c, E)
      PROVE  DOMAIN inflight' = DOMAIN inflight /\ UNCHANGED <<executing, ran, issuing>> /\ MayRefuse(c)
  <2>1. audit' = audit \cup E \cup {Refused(c)} /\ UNCHANGED dangling
    BY <1>4 DEF TurnAway
  <2>2. Says({c}, {}, {}, {})
    BY <1>4, <2>1, TellingOne, SaidLast DEF TellsNothing
  <2>3. MayRefuse(c)
    BY <2>2, AtMostRefused
  <2> QED BY <1>4, <2>3 DEF TurnAway
<1>5. ASSUME AskHuman(c, log, gated)
      PROVE  /\ Joins(c) /\ UNCHANGED <<executing, ran>>
             /\ issuing' = issuing \cup {c} /\ Says({}, {}, {c}, {})
  <2>1. audit' = audit \cup gated \cup {LifecycleEntry(c, "approval_pending", TRUE)}
        /\ UNCHANGED dangling
    BY <1>5 DEF AskHuman
  <2>2. LET x == LifecycleEntry(c, "approval_pending", TRUE)
        IN /\ RefusedIn({x}) = {} /\ ApprovedIn({x}) = {}
           /\ AskedIn({x}) = {c} /\ EndedIn({x}) = {}
    BY TellingOne
  <2>3. Says({}, {}, {c}, {})
    BY <1>3, <2>1, <2>2, SaidLast DEF TellsNothing
  <2> QED BY <1>5, <2>3 DEF AskHuman, Joins, Put
<1>6. ASSUME RunAtOnce(c, log, gated)
      PROVE  Joins(c) /\ Enters(c) /\ UNCHANGED issuing /\ Says({}, {c}, {}, {})
  <2>1. audit' = audit \cup gated \cup {Approved(c)} /\ UNCHANGED dangling
    BY <1>6 DEF RunAtOnce
  <2>2. /\ RefusedIn({Approved(c)}) = {} /\ ApprovedIn({Approved(c)}) = {c}
        /\ AskedIn({Approved(c)}) = {} /\ EndedIn({Approved(c)}) = {}
    BY TellingOne
  <2>3. Says({}, {c}, {}, {})
    BY <1>3, <2>1, <2>2, SaidLast DEF TellsNothing
  <2> QED BY <1>6, <2>3 DEF RunAtOnce, Put, Start, Enters, Joins
<1>7. ASSUME SubmitThrows(c, log, decided)
      PROVE  Joins(c) /\ UNCHANGED <<executing, ran, issuing>> /\ MayRefuse(c)
  <2>1. PICK x : /\ Dangle({x})
                 /\ x \in {Refused(c), Approved(c), LifecycleEntry(c, "approval_pending", TRUE),
                           GateEntry(c, Evaluation(log))}
                 /\ \/ audit' = audit \cup decided
                    \/ audit' = audit \cup decided \cup {GateEntry(c, Evaluation(log))}
    BY <1>7 DEF SubmitThrows
  <2>2. PICK E : TellsNothing(E) /\ audit' = audit \cup E
    BY <1>3, <2>1 DEF gated
  <2>3. RefusedIn({x}) \subseteq {c} /\ EndedIn({x}) = {}
    BY <2>1, OneCommandToldOf
  <2>4. Says(RefusedIn({x}), {}, {}, {})
    BY <2>1, <2>2, <2>3, LostLast DEF Dangle, TellsNothing
  <2>5. MayRefuse(c)
    BY <2>3, <2>4, AtMostRefused
  <2> QED BY <1>7, <2>5 DEF SubmitThrows, Put, Joins
<1> QED BY <1>1, <1>2, <1>3, <1>4, <1>5, <1>6, <1>7 DEF Emits

(* A verdict on a pending command settles it, or is lost with the call that
   throws.                                                                  *)
LEMMA RefuseShaped ==
  ASSUME LifeInv, NEW v, RefusePending(v)
  PROVE  v.id \in Command /\ Settles(v.id)
<1> DEFINE c == v.id
<1>1. /\ c \in pending /\ c \in Command /\ pending' = pending \ {c}
      /\ UNCHANGED <<issued, issuing, executing, ran>>
  BY DEF RefusePending, Take, LifeInv
<1>2. \/ audit' = audit \cup {} \cup {Refused(c)} /\ UNCHANGED dangling
      \/ audit' = audit \cup {} /\ dangling' = dangling \cup {Refused(c)}
  BY DEF RefusePending, Dangle
<1>3. DOMAIN inflight' = DOMAIN inflight \/ Leaves(c)
  BY DEF RefusePending, Drop, Leaves
<1> HIDE DEF c
<1>4. Says({c}, {}, {}, {})
  <2>1. /\ RefusedIn({Refused(c)}) = {c} /\ ApprovedIn({Refused(c)}) = {}
        /\ AskedIn({Refused(c)}) = {} /\ EndedIn({Refused(c)}) = {}
    BY <1>1, TellingOne
  <2>2. RefusedIn({}) = {} /\ EndedIn({}) = {}
    BY DecisionsTellNothing DEF TellsNothing
  <2>3. CASE audit' = audit \cup {} \cup {Refused(c)} /\ UNCHANGED dangling
    BY <2>1, <2>2, <2>3, SaidLast
  <2>4. CASE audit' = audit \cup {} /\ dangling' = dangling \cup {Refused(c)}
    BY <2>1, <2>2, <2>4, LostLast
  <2> QED BY <1>2, <2>3, <2>4
<1>5. MayRefuse(c)
  BY <1>4, AtMostRefused
<1> QED BY <1>1, <1>3, <1>5 DEF Settles, c

LEMMA ApproveShaped ==
  ASSUME LifeInv, NEW v, ApprovePending(v)
  PROVE  v.id \in Command /\ Settles(v.id)
<1> DEFINE c == v.id
<1>1. /\ c \in pending /\ c \in Command /\ pending' = pending \ {c}
      /\ UNCHANGED <<issued, issuing>> /\ consented' = consented \cup {c}
  BY DEF ApprovePending, Take, LifeInv
<1>2. PICK gate : Release(c, gate) \/ ReleaseThrows(c, gate)
  BY DEF ApprovePending
<1> HIDE DEF c
<1>a. TellsNothing({}) /\ RefusedIn({Approved(c)}) = {} /\ EndedIn({Approved(c)}) = {}
  BY <1>1, DecisionsTellNothing, TellingOne
<1>3. CASE Release(c, gate) /\ gate = "block"
  <2>1. audit' = audit \cup {Approved(c)} \cup {Refused(c)} /\ UNCHANGED dangling
    BY <1>3 DEF Release
  <2>2. Says({c}, {}, {}, {})
    BY <1>1, <1>a, <2>1, TellingOne, SaidLast
  <2>3. MayRefuse(c)
    BY <2>2, AtMostRefused
  <2> QED BY <1>1, <1>3, <2>3 DEF Release, Drop, Settles, Leaves, c
<1>4. CASE Release(c, gate) /\ gate # "block"
  <2>1. audit' = audit \cup {} \cup {Approved(c)} /\ UNCHANGED dangling
    BY <1>4 DEF Release
  <2>2. Says({}, {c}, {}, {})
    BY <1>1, <1>a, <2>1, TellingOne, SaidLast DEF TellsNothing
  <2> QED BY <1>1, <1>4, <2>2 DEF Release, Start, Settles, Enters, c
<1>5. CASE ReleaseThrows(c, gate)
  <2>1. \/ audit' = audit \cup {} /\ dangling' = dangling \cup {Approved(c)}
        \/ audit' = audit \cup {Approved(c)} /\ dangling' = dangling \cup {Refused(c)}
    BY <1>5 DEF ReleaseThrows, Dangle
  <2>a. RefusedIn({Refused(c)}) = {c} /\ EndedIn({Refused(c)}) = {}
    BY <1>1, TellingOne
  <2>b. ASSUME audit' = audit \cup {}, dangling' = dangling \cup {Approved(c)}
        PROVE  Says({}, {}, {}, {})
    BY <1>a, <2>b, LostLast DEF TellsNothing
  <2>c. ASSUME audit' = audit \cup {Approved(c)}, dangling' = dangling \cup {Refused(c)}
        PROVE  Says({c}, {}, {}, {})
    BY <1>a, <2>a, <2>c, LostLast
  <2>2. Says({}, {}, {}, {}) \/ Says({c}, {}, {}, {})
    BY <2>1, <2>b, <2>c
  <2>3. MayRefuse(c)
    BY <2>2, AtMostRefused
  <2> QED BY <1>1, <1>5, <2>3 DEF ReleaseThrows, Settles, c
<1> QED BY <1>2, <1>3, <1>4, <1>5

(* A call of the controller that throws while it decides or resumes.        *)
LEMMA ThrowIsQuiet ==
  ASSUME LifeInv, NEW E, TellsNothing(E), Throws(E), UNCHANGED <<pending, issuing, executing, ran>>
  PROVE  Shaped
<1>1. audit' = audit \cup {} /\ dangling' = dangling \cup E /\ UNCHANGED <<issued, inflight>>
  BY DEF Throws, Dangle
<1>2. pending' \subseteq Command /\ pending' \cap issuing' = {} /\ Waiting' \subseteq Waiting
  BY DEF LifeInv, Waiting
<1> QED BY <1>1, <1>2, QuietStep, DecisionsTellNothing

(* Every step of the gateway has one of the shapes.                         *)
LEMMA StepShaped == LifeInv /\ [GatewayNext]_allVars => Shaped
<1> SUFFICES ASSUME LifeInv, [GatewayNext]_allVars PROVE Shaped
  OBVIOUS
<1>a. /\ Request \cap Command = {} /\ pending \subseteq Command /\ pending \cap issuing = {}
      /\ audit = audit \cup {} /\ dangling = dangling \cup {} /\ TellsNothing({})
  BY GatewayAssumption, DecisionsTellNothing DEF LifeInv, AnyRequest
<1>1. CASE ReceiveMalformed
  BY <1>1, <1>a, QuietStep, DecisionsTellNothing
  DEF ReceiveMalformed, RejectMalformed, gatewayVars, Append1, Waiting
<1>2. ASSUME NEW r \in Request, ReceiveHalted(r) PROVE Shaped
  <2>1. Waiting' = Waiting /\ pending' \cap issuing' = {}
    BY <1>2, <1>a DEF ReceiveHalted, Waiting
  <2> QED BY <1>2, <1>a, <2>1, QuietStep, DecisionsTellNothing
          DEF ReceiveHalted, HaltFailSafe, Append1
<1>3. ASSUME NEW r \in Request, NEW scored \in CommitDecision, ReceiveWithoutCommand(r, scored)
      PROVE Shaped
  <2> DEFINE log == CommitLog(r, scored)
  <2>1. /\ UNCHANGED <<issued, inflight, executing, ran, pending>>
        /\ RecordDecision(log) /\ issuing' \subseteq issuing \cup {r}
    BY <1>3 DEF ReceiveWithoutCommand, Decide
  <2>2. /\ UNCHANGED dangling
        /\ \E captured \in MemoryCaptures : audit' = audit \cup DecisionRecords(log, captured)
    BY <2>1 DEF RecordDecision
  <2>3. Waiting' \subseteq Waiting /\ pending' \cap issuing' = {}
    BY <2>1, <1>a DEF Waiting
  <2> QED BY <1>a, <2>1, <2>2, <2>3, QuietStep, DecisionsTellNothing
<1>4. ASSUME NEW r \in Request, NEW c \in Command, ReceiveCommand(r, c) PROVE Shaped
  BY <1>4, SubmitShaped DEF ReceiveCommand, Submits, Shaped
<1>5. ASSUME NEW id \in Id, IssueToken(id) PROVE Shaped
  <2>1. pending' \subseteq Command /\ pending' \cap issuing' = {} /\ Waiting' \subseteq Waiting
    BY <1>5, <1>a DEF IssueToken, Waiting
  <2> QED BY <1>5, <1>a, <2>1, QuietStep DEF IssueToken, vars
<1>6. ASSUME NEW id \in Id, LoseToken(id) PROVE Shaped
  BY <1>6, <1>a, QuietStep DEF LoseToken, vars, Waiting
<1>7. ASSUME NEW id \in Id, NEW verdict, NEW remember, PresentToken(id, verdict, remember)
      PROVE Shaped
  BY <1>7, <1>a, QuietStep DEF PresentToken, vars, Waiting
<1>8. ASSUME NEW v \in verdicts, ApplyVerdict(v) PROVE Shaped
  <2>1. CASE RefusePending(v) \/ ApprovePending(v)
    BY <2>1, RefuseShaped, ApproveShaped DEF Shaped
  <2>2. CASE LoseVerdict(v)
    BY <2>2, <1>a, QuietStep DEF LoseVerdict, Take, vars, Waiting
  <2>4. CASE PassOn(v)
    BY <2>4, <1>a, QuietStep DEF PassOn, vars, Waiting
  <2>5. CASE ResumeSuspended(v)
    <3> DEFINE log == [request |-> v.id, decision |-> "ASSERT", verdict |-> "approve"]
    <3>1. UNCHANGED pending
      BY <2>5 DEF ResumeSuspended
    <3>2. \/ UNCHANGED <<vars, issuing, executing, ran>>
          \/ ResumeDenied(v.id, v.verdict) /\ UNCHANGED <<issuing, executing, ran>>
          \/ /\ v.verdict # "approve" /\ Resume(v.id, v.verdict)
             /\ UNCHANGED <<issuing, executing, ran>>
          \/ ResumeThrows(v.id, v.verdict) /\ UNCHANGED <<issuing, executing, ran>>
          \/ \E c \in Command, captured \in MemoryCaptures :
               Submits(c, log, DecisionRecords(log, captured))
      BY <2>5 DEF ResumeSuspended, Submits
    <3>3. CASE UNCHANGED <<vars, issuing, executing, ran>>
      BY <1>a, <3>1, <3>3, QuietStep DEF vars, Waiting
    <3>4. CASE ResumeDenied(v.id, v.verdict) /\ UNCHANGED <<issuing, executing, ran>>
      BY <1>a, <3>1, <3>4, QuietStep, DecisionsTellNothing DEF ResumeDenied, Append1, Waiting
    <3>5. CASE /\ v.verdict # "approve" /\ Resume(v.id, v.verdict)
               /\ UNCHANGED <<issuing, executing, ran>>
      <4> DEFINE refusal == LiftedLog(v.id, v.verdict)
      <4>1. RecordDecision(refusal) /\ UNCHANGED <<issued, inflight>>
        BY <3>5 DEF Resume
      <4>2. /\ UNCHANGED dangling
            /\ \E captured \in MemoryCaptures :
                 audit' = audit \cup DecisionRecords(refusal, captured)
        BY <4>1 DEF RecordDecision
      <4> QED BY <1>a, <3>1, <3>5, <4>1, <4>2, QuietStep, DecisionsTellNothing DEF Waiting
    <3>6. CASE \E c \in Command, captured \in MemoryCaptures :
                 Submits(c, log, DecisionRecords(log, captured))
      BY <3>1, <3>6, SubmitShaped DEF Shaped
    <3>7. CASE ResumeThrows(v.id, v.verdict) /\ UNCHANGED <<issuing, executing, ran>>
      <4>1. PICK E : TellsNothing(E) /\ Throws(E)
        BY <3>7, DecisionsTellNothing DEF ResumeThrows, RecordingThrows
      <4> QED BY <3>1, <3>7, <4>1, ThrowIsQuiet
    <3> QED BY <3>2, <3>3, <3>4, <3>5, <3>6, <3>7
  <2> QED BY <1>8, <2>1, <2>2, <2>4, <2>5 DEF ApplyVerdict
<1>9. ASSUME NEW c \in Command, NEW succeeded \in BOOLEAN, Finish(c, succeeded) PROVE Shaped
  <2>1. c \in DOMAIN inflight
    BY <1>9 DEF Finish, LifeInv
  <2>2. audit' = audit \cup {} \cup {FeedbackEntry(c, TRUE)} /\ UNCHANGED dangling
    BY <1>9, <2>1 DEF Finish
  <2>3. /\ RefusedIn({FeedbackEntry(c, TRUE)}) = {} /\ ApprovedIn({FeedbackEntry(c, TRUE)}) = {}
        /\ AskedIn({FeedbackEntry(c, TRUE)}) = {} /\ EndedIn({FeedbackEntry(c, TRUE)}) = {c}
    BY TellingOne
  <2>4. Says({}, {}, {}, {c})
    BY <1>a, <2>2, <2>3, SaidLast DEF TellsNothing
  <2> QED BY <1>9, <2>4 DEF Finish, Ends, Leaves, Drop, Shaped
<1>10. CASE GatewayLoseHealth \/ UNCHANGED allVars
  BY <1>10, <1>a, QuietStep DEF GatewayLoseHealth, LoseHealth, allVars, vars, gatewayVars, Waiting
<1>11. ASSUME NEW r \in AnyRequest, ReceiveThrows(r) PROVE Shaped
  <2>1. PICK E : TellsNothing(E) /\ Throws(E)
    BY <1>11, DecisionsTellNothing DEF ReceiveThrows, DecideThrows, RecordingThrows
  <2> QED BY <1>11, <2>1, ThrowIsQuiet DEF ReceiveThrows, gatewayVars
<1>12. ASSUME NEW c \in Command, FinishThrows(c) PROVE Shaped
  <2>1. c \in DOMAIN inflight
    BY <1>12 DEF FinishThrows, LifeInv
  <2>2. audit' = audit \cup {} /\ dangling' = dangling \cup {FeedbackEntry(c, TRUE)}
    BY <1>12, <2>1 DEF FinishThrows, Dangle
  <2>3. Says({}, {}, {}, {c})
    BY <1>a, <2>2, TellingOne, LostLast DEF TellsNothing
  <2> QED BY <1>12, <2>3 DEF FinishThrows, Ends, Shaped
<1> QED
  BY <1>1, <1>2, <1>3, <1>4, <1>5, <1>6, <1>7, <1>8, <1>9, <1>10, <1>11, <1>12 DEF GatewayNext

-----------------------------------------------------------------------------
(* Which grant speaks.  The most specific grant that matches is found by the
   least of finitely many differences; induction is the least-number
   principle.                                                               *)

(* Every nonempty set of naturals has a least member.                       *)
LEMMA LeastNatural ==
  ASSUME NEW T, T \subseteq Nat, T # {}
  PROVE  \E m \in T : \A k \in T : m <= k
<1>1. PICK m \in T : \A k \in T : ~(<<k, m>> \in OpToRel(<, Nat))
  BY NatLessThanWellFounded, WFMin
<1>2. ASSUME NEW k \in T PROVE m <= k
  <2>1. ~(k < m)
    BY <1>1, <1>2 DEF OpToRel
  <2> QED BY <2>1
<1> QED BY <1>2

(* Finitely many naturals have a bound.                                     *)
LEMMA BoundOfMany ==
  ASSUME NEW n \in Nat, NEW f \in [1..n -> Nat]
  PROVE  \E b \in Nat : \A i \in 1..n : f[i] <= b
<1> DEFINE Unbounded == {m \in Nat : \E g \in [1..m -> Nat] :
                                       \A b \in Nat : \E i \in 1..m : ~(g[i] <= b)}
<1> SUFFICES ASSUME Unbounded # {} PROVE FALSE
  OBVIOUS
<1>1. PICK m \in Unbounded : \A k \in Unbounded : m <= k
  BY LeastNatural
<1>2. m \in Nat
  OBVIOUS
<1>3. PICK g \in [1..m -> Nat] : \A b \in Nat : \E i \in 1..m : ~(g[i] <= b)
  BY <1>1
<1>4. m # 0
  <2>1. 0 \in Nat
    OBVIOUS
  <2>2. PICK i \in 1..m : ~(g[i] <= 0)
    BY <1>3, <2>1
  <2> QED BY <2>2, <1>2
<1>5. m - 1 \in Nat
  BY <1>2, <1>4
<1>6. \A k \in [1..(m - 1) -> Nat] : \E b \in Nat : \A i \in 1..(m - 1) : k[i] <= b
  <2>1. m - 1 \notin Unbounded
    <3>1. ~(m <= m - 1)
      BY <1>2
    <3> QED BY <1>1, <1>5, <3>1
  <2> QED BY <1>5, <2>1
<1> HIDE DEF Unbounded
<1> DEFINE h == [i \in 1..(m - 1) |-> g[i]]
<1>a. \A i \in 1..(m - 1) : i \in 1..m
  BY <1>2
<1>b. h \in [1..(m - 1) -> Nat] /\ \A i \in 1..(m - 1) : h[i] = g[i]
  BY <1>3, <1>a
<1>c. \A i \in 1..m : g[i] \in Nat
  BY <1>3
<1>e. \A i \in 1..m : i # m => i \in 1..(m - 1)
  BY <1>2
<1>d. m \in 1..m
  BY <1>2, <1>4
<1> HIDE DEF h
<1>7. PICK b \in Nat : \A i \in 1..(m - 1) : h[i] <= b
  BY <1>6, <1>b
<1>8. g[m] \in Nat /\ b + g[m] \in Nat
  BY <1>c, <1>d
<1>9. PICK i \in 1..m : ~(g[i] <= b + g[m])
  BY <1>3, <1>8
<1>10. CASE i = m
  BY <1>8, <1>9, <1>10
<1>11. CASE i # m
  <2>1. i \in 1..(m - 1) /\ h[i] = g[i] /\ g[i] \in Nat
    BY <1>b, <1>c, <1>e, <1>9, <1>11
  <2> QED BY <1>7, <1>8, <1>9, <2>1
<1> QED BY <1>10, <1>11

(* The rank of a grant is a number.                                         *)
LEMMA SpecificityIsNatural ==
  ASSUME NEW grant, IsFiniteSet(grant.caps)
  PROVE  Specificity(grant) \in Nat
BY FS_CardinalityType DEF Specificity

(* Whenever a grant matches, one of them speaks.                            *)
LEMMA SomeGrantSpeaks ==
  ASSUME NEW S, NEW stored \in Seq(S), NEW ctx, NEW now,
         \A i \in DOMAIN stored : IsFiniteSet(stored[i].caps),
         Matching(stored, ctx, now) # {}
  PROVE  \E i \in DOMAIN stored : Speaks(i, stored, ctx, now)
<1> DEFINE M == Matching(stored, ctx, now)
           n == Len(stored)
           f == [i \in 1..n |-> Specificity(stored[i])]
<1>1. n \in Nat /\ DOMAIN stored = 1..n /\ M \subseteq 1..n
  BY LenProperties DEF Matching
<1>2. f \in [1..n -> Nat]
  BY <1>1, SpecificityIsNatural
<1>a. \A i \in M : f[i] = Specificity(stored[i])
  BY <1>1
<1> HIDE DEF n, M, f
<1>3. PICK b \in Nat : \A i \in 1..n : f[i] <= b
  BY <1>1, <1>2, BoundOfMany
<1>4. \A i \in M : b - f[i] \in Nat /\ f[i] \in Nat
  BY <1>1, <1>2, <1>3
<1> DEFINE Slack == {b - f[i] : i \in M}
<1>5. Slack \subseteq Nat /\ Slack # {}
  BY <1>4 DEF M
<1>6. PICK least \in Slack : \A k \in Slack : least <= k
  BY <1>5, LeastNatural
<1> DEFINE Best == {i \in M : b - f[i] = least}
<1>7. Best \subseteq Nat /\ Best # {}
  <2>1. PICK i \in M : least = b - f[i]
    BY <1>6
  <2>2. i \in Best
    BY <2>1
  <2>3. \A k \in 1..n : k \in Nat
    BY <1>1
  <2> QED BY <1>1, <2>2, <2>3
<1>8. PICK first \in Best : \A k \in Best : first <= k
  BY <1>7, LeastNatural
<1>9. ASSUME NEW j \in M
      PROVE  f[j] < f[first] \/ (f[j] = f[first] /\ first <= j)
  <2>1. b - f[first] <= b - f[j]
    BY <1>6, <1>8, <1>9
  <2>2. CASE f[j] = f[first]
    BY <1>8, <1>9, <2>2
  <2>3. CASE f[j] # f[first]
    <3>1. f[j] \in Nat /\ f[first] \in Nat
      BY <1>4, <1>8, <1>9
    <3> QED BY <1>3, <2>1, <2>3, <3>1
  <2> QED BY <2>2, <2>3
<1>11. Speaks(first, stored, ctx, now)
  BY <1>8, <1>9, <1>a DEF Speaks, M
<1> QED BY <1>1, <1>8, <1>11

(* A set written down with at most seven elements is finite.                *)
LEMMA FewAreFinite ==
  ASSUME NEW a, NEW b, NEW c, NEW d, NEW e, NEW f, NEW g
  PROVE  /\ IsFiniteSet({a}) /\ IsFiniteSet({a, b}) /\ IsFiniteSet({a, b, c})
         /\ IsFiniteSet({a, b, c, d}) /\ IsFiniteSet({a, b, c, d, e})
         /\ IsFiniteSet({a, b, c, d, e, f}) /\ IsFiniteSet({a, b, c, d, e, f, g})
<1>1. IsFiniteSet({a}) /\ {a} \cup {b} = {a, b} /\ {a, b} \cup {c} = {a, b, c}
  BY FS_Singleton
<1>2. IsFiniteSet({a, b})
  BY <1>1, FS_AddElement
<1>3. IsFiniteSet({a, b, c}) /\ {a, b, c} \cup {d} = {a, b, c, d}
  BY <1>1, <1>2, FS_AddElement
<1>4. IsFiniteSet({a, b, c, d}) /\ {a, b, c, d} \cup {e} = {a, b, c, d, e}
  BY <1>3, FS_AddElement
<1>5. IsFiniteSet({a, b, c, d, e}) /\ {a, b, c, d, e} \cup {f} = {a, b, c, d, e, f}
  BY <1>4, FS_AddElement
<1>6. IsFiniteSet({a, b, c, d, e, f}) /\ {a, b, c, d, e, f} \cup {g} = {a, b, c, d, e, f, g}
  BY <1>5, FS_AddElement
<1>7. IsFiniteSet({a, b, c, d, e, f, g})
  BY <1>6, FS_AddElement
<1> QED BY <1>1, <1>2, <1>3, <1>4, <1>5, <1>6, <1>7

(* Every entry of the catalogue grants finitely many capabilities.          *)
LEMMA ToolCapsAreFinite == \A t \in Tool : IsFiniteSet(ToolCaps[t])
<1>1. /\ IsFiniteSet(ToolCaps["echo"]) /\ IsFiniteSet(ToolCaps["file_search"])
      /\ IsFiniteSet(ToolCaps["file_write"]) /\ IsFiniteSet(ToolCaps["file_edit"])
      /\ IsFiniteSet(ToolCaps["http_fetch"]) /\ IsFiniteSet(ToolCaps["web_search"])
      /\ IsFiniteSet(ToolCaps["github_read"]) /\ IsFiniteSet(ToolCaps["github_write"])
  BY FewAreFinite DEF ToolCaps
<1>2. /\ IsFiniteSet(ToolCaps["gmail_read"]) /\ IsFiniteSet(ToolCaps["gmail_write"])
      /\ IsFiniteSet(ToolCaps["calendar_read"]) /\ IsFiniteSet(ToolCaps["calendar_write"])
      /\ IsFiniteSet(ToolCaps["drive_read"]) /\ IsFiniteSet(ToolCaps["drive_write"])
  BY FewAreFinite DEF ToolCaps
<1>3. /\ IsFiniteSet(ToolCaps["browser_read"]) /\ IsFiniteSet(ToolCaps["browser_snapshot"])
      /\ IsFiniteSet(ToolCaps["browser_automation"]) /\ IsFiniteSet(ToolCaps["shell_exec"])
      /\ IsFiniteSet(ToolCaps["schedule_list"]) /\ IsFiniteSet(ToolCaps["schedule_create"])
      /\ IsFiniteSet(ToolCaps["schedule_update"]) /\ IsFiniteSet(ToolCaps["schedule_delete"])
  BY FewAreFinite DEF ToolCaps
<1>4. Tool = {"echo", "file_search", "file_write", "file_edit", "http_fetch", "web_search",
              "github_read", "github_write", "gmail_read", "gmail_write", "calendar_read",
              "calendar_write", "drive_read", "drive_write", "browser_read",
              "browser_snapshot", "browser_automation", "shell_exec", "schedule_list",
              "schedule_create", "schedule_update", "schedule_delete"}
  BY DEF Tool, ToolCaps
<1> QED BY <1>1, <1>2, <1>3, <1>4

(* What a command is evaluated for always has a target, and finitely many
   capabilities.                                                            *)
LEMMA ContextFacts ==
  ASSUME NEW log, log.request \in Request
  PROVE  ContextOf(log).target # "none" /\ IsFiniteSet(ContextOf(log).caps)
<1> DEFINE r == log.request
           command == BuildCommand(Profile[r])
<1>1. Commanded[r] = command
  BY DEF Commanded
<1>2. command.type \in {"tool_call", "noop", "channel_send", "llm_call"}
  BY DEF BuildCommand
<1>3. \/ command.caps = {} \/ command.caps = {"channel:send"}
      \/ Profile[r].ask \in Tool /\ command.caps = ToolCaps[Profile[r].ask]
  BY DEF BuildCommand
<1> HIDE DEF command
<1>4. IsFiniteSet({"channel:send"})
  BY FS_Singleton
<1>5. IsFiniteSet(command.caps)
  BY <1>3, <1>4, ToolCapsAreFinite, FS_EmptySet
<1>6. /\ PolicyCommand[r].caps = command.caps
      /\ PolicyCommand[r].target = IF command.type = "tool_call" THEN Target[r] ELSE command.type
  BY <1>1 DEF PolicyCommand
<1>7. PolicyCommand[r].target # "none"
  BY <1>2, <1>6, GatewayAssumption
<1>8. \A actor : /\ Context(PolicyCommand[r], actor).target = PolicyCommand[r].target
                 /\ Context(PolicyCommand[r], actor).caps = PolicyCommand[r].caps
  BY DEF Context
<1>9. ContextOf(log) =
        Context(PolicyCommand[r], IF log.verdict # "none" THEN Human ELSE Requester[r])
  BY DEF ContextOf, ContextFor
<1> QED BY <1>5, <1>6, <1>7, <1>8, <1>9

-----------------------------------------------------------------------------
(* The grants.                                                              *)

(* A sequence, whatever its elements.                                       *)
IsSeq(s) == \E S : s \in Seq(S)

(* Appending keeps every position there was.                                *)
LEMMA AppendFacts ==
  ASSUME NEW s, IsSeq(s), NEW e
  PROVE  /\ IsSeq(Append(s, e)) /\ DOMAIN s \subseteq DOMAIN Append(s, e)
         /\ \A i \in DOMAIN s : Append(s, e)[i] = s[i]
         /\ \A i \in DOMAIN Append(s, e) \ DOMAIN s : Append(s, e)[i] = e
<1>1. PICK S : s \in Seq(S)
  BY DEF IsSeq
<1>2. s \in Seq(S \cup {e})
  BY <1>1, SeqMonotonic
<1>3. Append(s, e) \in Seq(S \cup {e})
  BY <1>2
<1>4. /\ Len(s) \in Nat /\ Len(Append(s, e)) = Len(s) + 1
      /\ DOMAIN s = 1..Len(s) /\ DOMAIN Append(s, e) = 1..(Len(s) + 1)
      /\ \A i \in 1..(Len(s) + 1) : Append(s, e)[i] = IF i <= Len(s) THEN s[i] ELSE e
  BY <1>2, <1>3
<1> QED BY <1>3, <1>4 DEF IsSeq

(* A stored grant was there at start, or is what an approval of a command
   remembered.                                                              *)
Remembered(entry) ==
  /\ entry.from \in DOMAIN issued
  /\ \E isPath, mode :
       entry.grant = RememberedGrant(ContextOf(issued[entry.from]), isPath, mode, Never)

(* Every command stands on a request, and every grant on the grant file or a
   command.                                                                 *)
LedgerInv ==
  /\ \A c \in DOMAIN issued : issued[c].request \in Request
  /\ IsSeq(grants)
  /\ \A i \in DOMAIN grants :
       \/ grants[i].from = "boot" /\ IsFiniteSet(grants[i].grant.caps)
       \/ Remembered(grants[i])

(* Every grant names finitely many capabilities.                            *)
LEMMA CapsAreFinite ==
  LedgerInv => \A i \in DOMAIN grants : IsFiniteSet(grants[i].grant.caps)
<1> SUFFICES ASSUME LedgerInv, NEW i \in DOMAIN grants, Remembered(grants[i])
             PROVE  IsFiniteSet(grants[i].grant.caps)
  BY DEF LedgerInv
<1>1. PICK isPath, mode :
        grants[i].grant = RememberedGrant(ContextOf(issued[grants[i].from]), isPath, mode, Never)
  BY DEF Remembered
<1>2. grants[i].grant.caps = {} \/ grants[i].grant.caps = ContextOf(issued[grants[i].from]).caps
  BY <1>1 DEF RememberedGrant
<1>3. issued[grants[i].from].request \in Request
  BY DEF LedgerInv, Remembered
<1> QED BY <1>2, <1>3, ContextFacts, FS_EmptySet

(* What the policy lets run unasked when the default is to ask is covered:
   the grant that speaks for it is a system grant, one of the grant file, or
   one remembered for the same actor.                                       *)
LEMMA AllowedIsCovered ==
  ASSUME LedgerInv, DefaultMode # "full_access", NEW log, Evaluation(log) = "allow"
  PROVE  Covered(log)
<1> DEFINE ctx == ContextOf(log)
           all == SystemGrants \o StoredGrants
           M   == Matching(all, ctx, 0)
           s   == CHOOSE i \in DOMAIN all : Speaks(i, all, ctx, 0)
<1> SUFFICES ctx.operation \in {"llm.call", "noop"} \/ \E i \in DOMAIN grants : Covers(i, ctx)
  BY DEF Covered
<1>1. Evaluate(ctx, all, DefaultMode, 0) = "allow"
  BY DEF Evaluation
<1>2. M # {} /\ all[s].decision = "allow"
  BY <1>1 DEF Evaluate
<1>3. PICK S : grants \in Seq(S)
  BY DEF LedgerInv, IsSeq
<1> DEFINE G == {g.grant : g \in S} \cup {SystemGrants[1], SystemGrants[2]}
<1>4. /\ Len(grants) \in Nat /\ DOMAIN grants = 1..Len(grants)
      /\ StoredGrants \in Seq(G) /\ Len(StoredGrants) = Len(grants)
      /\ \A i \in 1..Len(grants) : StoredGrants[i] = grants[i].grant
  <2>1. /\ Len(grants) \in Nat /\ DOMAIN grants = 1..Len(grants)
        /\ \A i \in 1..Len(grants) : grants[i] \in S
    BY <1>3
  <2>2. /\ StoredGrants \in [1..Len(grants) -> G]
        /\ \A i \in 1..Len(grants) : StoredGrants[i] = grants[i].grant
    BY <2>1 DEF StoredGrants
  <2> QED BY <2>1, <2>2
<1>5. /\ SystemGrants \in Seq(G) /\ Len(SystemGrants) = 2
      /\ SystemGrants[1] = SystemGrant("llm.call", "llm_call")
      /\ SystemGrants[2] = SystemGrant("noop", "noop")
  BY DEF SystemGrants
<1> HIDE DEF G
<1>6. /\ all \in Seq(G) /\ DOMAIN all = 1..(Len(grants) + 2)
      /\ \A i \in DOMAIN all :
           \/ i \in {1, 2} /\ all[i] = SystemGrants[i]
           \/ i - 2 \in DOMAIN grants /\ all[i] = grants[i - 2].grant
  <2>a. SystemGrants \in Seq(G) /\ StoredGrants \in Seq(G)
    BY <1>4, <1>5
  <2>1. /\ all \in Seq(G) /\ Len(all) = Len(SystemGrants) + Len(StoredGrants)
        /\ \A i \in 1..(Len(SystemGrants) + Len(StoredGrants)) :
             all[i] = IF i <= Len(SystemGrants) THEN SystemGrants[i]
                      ELSE StoredGrants[i - Len(SystemGrants)]
    BY <2>a, ConcatProperties, Zenon
  <2> HIDE DEF all
  <2>2. /\ all \in Seq(G) /\ Len(all) = Len(grants) + 2
        /\ \A i \in 1..(Len(grants) + 2) :
             all[i] = IF i <= 2 THEN SystemGrants[i] ELSE StoredGrants[i - 2]
    BY <1>4, <1>5, <2>1
  <2>3. DOMAIN all = 1..(Len(grants) + 2)
    BY <2>2
  <2>4. ASSUME NEW i \in 1..(Len(grants) + 2)
        PROVE  \/ i \in {1, 2} /\ all[i] = SystemGrants[i]
               \/ i - 2 \in DOMAIN grants /\ all[i] = grants[i - 2].grant
    <3>1. CASE i <= 2
      BY <1>4, <2>2, <2>4, <3>1
    <3>2. CASE ~(i <= 2)
      <4>1. i - 2 \in 1..Len(grants)
        BY <1>4, <2>4, <3>2
      <4> QED BY <1>4, <2>2, <2>4, <3>2, <4>1
    <3> QED BY <3>1, <3>2
  <2> QED BY <2>2, <2>3, <2>4
<1> HIDE DEF all
<1>7. \A i \in {1, 2} : /\ SystemGrants[i].operation \in {"llm.call", "noop"}
                        /\ SystemGrants[i].caps = {}
  BY <1>5 DEF SystemGrant
<1>8. \A i \in DOMAIN all : IsFiniteSet(all[i].caps)
  BY <1>6, <1>7, CapsAreFinite, FS_EmptySet
<1>9. s \in DOMAIN all /\ Speaks(s, all, ctx, 0)
  BY <1>2, <1>6, <1>8, SomeGrantSpeaks
<1>10. GrantMatches(all[s], ctx, 0)
  BY <1>9 DEF Speaks, Matching
<1> HIDE DEF s, ctx
<1>11. CASE s \in {1, 2} /\ all[s] = SystemGrants[s]
  BY <1>7, <1>10, <1>11 DEF GrantMatches, ctx
<1>12. CASE s - 2 \in DOMAIN grants /\ all[s] = grants[s - 2].grant
  <2>1. CASE grants[s - 2].from = "boot"
    BY <1>2, <1>10, <1>12, <2>1 DEF Covers, ctx
  <2>2. CASE grants[s - 2].from # "boot"
    <3> DEFINE from == ContextOf(issued[grants[s - 2].from])
    <3>1. Remembered(grants[s - 2])
      BY <1>12, <2>2 DEF LedgerInv
    <3>2. PICK isPath, mode :
            grants[s - 2].grant = RememberedGrant(from, isPath, mode, Never)
      BY <3>1 DEF Remembered
    <3>3. from.target # "none"
      BY <3>1, ContextFacts DEF LedgerInv, Remembered
    <3> HIDE DEF from
    <3>4. /\ from.actor \in {"*", ctx.actor}
          /\ \/ grants[s - 2].grant.operation = "*"
             \/ from.operation = ctx.operation /\ from.target = ctx.target
      BY <1>10, <1>12, <3>2, <3>3 DEF GrantMatches, RememberedGrant
    <3> QED BY <1>12, <2>2, <3>1, <3>4 DEF Covers, Remembered, from, ctx
  <2> QED BY <2>1, <2>2
<1> QED BY <1>6, <1>9, <1>11, <1>12

-----------------------------------------------------------------------------
(* Ids, and the books: who was let in, by whose approval, on which grant.   *)
IdsInv ==
  /\ DOMAIN suspended \subseteq AnyRequest
  /\ issuing \subseteq Id /\ tokens \subseteq Id /\ verdicts \subseteq Verdict

(* Tokens and verdicts are only ever bound to ids the gateway knows.         *)
LEMMA IdsStep == LifeInv /\ IdsInv /\ [GatewayNext]_allVars => IdsInv'
<1> SUFFICES ASSUME LifeInv, IdsInv, [GatewayNext]_allVars PROVE IdsInv'
  OBVIOUS
<1>1. CASE ReceiveMalformed
  BY <1>1 DEF IdsInv, ReceiveMalformed, RejectMalformed, gatewayVars, Put, AnyRequest
<1>2. ASSUME NEW r \in Request, ReceiveHalted(r) PROVE IdsInv'
  BY <1>2 DEF IdsInv, ReceiveHalted, HaltFailSafe, Put, AnyRequest, Id
<1>3. ASSUME NEW r \in Request, NEW scored \in CommitDecision, ReceiveWithoutCommand(r, scored)
      PROVE IdsInv'
  <2>1. suspended' = suspended \/ suspended' = Put(suspended, r, TRUE)
    BY <1>3 DEF ReceiveWithoutCommand, Decide
  <2>2. DOMAIN suspended' \subseteq AnyRequest
    BY <2>1 DEF IdsInv, Put, AnyRequest
  <2> QED BY <1>3, <2>2 DEF IdsInv, ReceiveWithoutCommand, Id
<1>a. ASSUME NEW c \in Command, NEW log, NEW before, Submits(c, log, before)
      PROVE issuing' \subseteq issuing \cup {c}
  BY <1>a DEF Submits, Submit, SubmitThrows, TurnAway, AskHuman, RunAtOnce
<1>4. ASSUME NEW r \in Request, NEW c \in Command, ReceiveCommand(r, c) PROVE IdsInv'
  <2>1. issuing' \subseteq issuing \cup {c}
    BY <1>4, <1>a DEF ReceiveCommand, Submits
  <2> QED BY <1>4, <2>1 DEF IdsInv, ReceiveCommand, Id
<1>5. ASSUME NEW id \in Id, IssueToken(id) PROVE IdsInv'
  BY <1>5 DEF IdsInv, IssueToken, vars
<1>6. ASSUME NEW id \in Id, LoseToken(id) PROVE IdsInv'
  BY <1>6 DEF IdsInv, LoseToken, vars
<1>7. ASSUME NEW id \in Id, NEW verdict \in ResumeVerdict,
             NEW remember \in {"no", "remember_this_decision", "full_access"},
             PresentToken(id, verdict, remember)
      PROVE IdsInv'
  <2>1. [id |-> id, verdict |-> verdict, remember |-> remember, stage |-> "pending"] \in Verdict
    BY DEF Verdict, Mode
  <2> QED BY <1>7, <2>1 DEF IdsInv, PresentToken, vars
<1>8. ASSUME NEW v \in verdicts, ApplyVerdict(v) PROVE IdsInv'
  <2>1. CASE RefusePending(v)
    BY <2>1 DEF IdsInv, RefusePending, Take
  <2>2. CASE LoseVerdict(v)
    BY <2>2 DEF IdsInv, LoseVerdict, Take, vars
  <2>3. CASE ApprovePending(v)
    BY <2>3 DEF IdsInv, ApprovePending, Take
  <2>4. CASE PassOn(v)
    <3>1. [v EXCEPT !.stage = "hds"] \in Verdict
      BY DEF IdsInv, Verdict
    <3> QED BY <2>4, <3>1 DEF IdsInv, PassOn, vars
  <2>5. CASE ResumeSuspended(v)
    <3> DEFINE log == [request |-> v.id, decision |-> "ASSERT", verdict |-> "approve"]
    <3>1. /\ verdicts' = verdicts \ {v} /\ UNCHANGED tokens
          /\ DOMAIN suspended' \subseteq DOMAIN suspended
          /\ \/ UNCHANGED issuing
             \/ \E c \in Command, captured \in MemoryCaptures :
                  Submits(c, log, DecisionRecords(log, captured))
      BY <2>5 DEF ResumeSuspended, ResumeDenied, Resume, ResumeThrows, RecordingThrows, Throws,
                  Submits, Drop, vars
    <3>2. issuing' \subseteq issuing \cup Command
      <4>1. ASSUME NEW c \in Command, NEW captured, Submits(c, log, DecisionRecords(log, captured))
            PROVE  issuing' \subseteq issuing \cup Command
        BY <4>1, <1>a
      <4> QED BY <3>1, <4>1
    <3> QED BY <3>1, <3>2 DEF IdsInv, Id
  <2> QED BY <1>8, <2>1, <2>2, <2>3, <2>4, <2>5 DEF ApplyVerdict
<1>9. ASSUME NEW c \in Command, NEW succeeded \in BOOLEAN, Finish(c, succeeded) PROVE IdsInv'
  BY <1>9 DEF IdsInv, Finish
<1>10. CASE GatewayLoseHealth \/ UNCHANGED allVars
  BY <1>10 DEF IdsInv, GatewayLoseHealth, LoseHealth, allVars, vars, gatewayVars
<1>11. ASSUME NEW r \in AnyRequest, ReceiveThrows(r) PROVE IdsInv'
  BY <1>11 DEF IdsInv, ReceiveThrows, DecideThrows, RecordingThrows, Throws, gatewayVars
<1>12. ASSUME NEW c \in Command, FinishThrows(c) PROVE IdsInv'
  BY <1>12 DEF IdsInv, FinishThrows
<1> QED
  BY <1>1, <1>2, <1>3, <1>4, <1>5, <1>6, <1>7, <1>8, <1>9, <1>10, <1>11, <1>12 DEF GatewayNext

(* A step leaves the books alone, or applies the verdict on one pending
   command to them.                                                         *)
KeepsBooks ==
  /\ UNCHANGED <<grants, consented, recorded>>
  /\ \A c \in DOMAIN issued' \ DOMAIN issued : issued'[c].request \in Request

Books(c) ==
  /\ c \in pending /\ UNCHANGED issued
  /\ \/ UNCHANGED grants
     \/ \E isPath, mode :
          LET grant == RememberedGrant(ContextOf(issued[c]), isPath, mode, Never)
          IN grants' = Append(grants, [grant |-> grant, from |-> c])
  /\ \/ UNCHANGED <<consented, recorded>>
     \/ consented' = consented \cup {c} /\ recorded' \subseteq recorded \cup {c}

(* Every step leaves the books alone or applies one verdict to them.        *)
LEMMA BooksStep == IdsInv /\ [GatewayNext]_allVars => KeepsBooks \/ \E c : Books(c)
<1> SUFFICES ASSUME IdsInv, [GatewayNext]_allVars PROVE KeepsBooks \/ \E c : Books(c)
  OBVIOUS
<1>a. ASSUME UNCHANGED <<issued, grants, consented, recorded>> PROVE KeepsBooks
  BY <1>a DEF KeepsBooks
<1>b. ASSUME NEW c \in Command, NEW log, log.request \in Request, NEW before,
             Submits(c, log, before), UNCHANGED <<grants, consented, recorded>>
      PROVE KeepsBooks
  BY <1>b DEF KeepsBooks, Submits, Submit, SubmitThrows, Put
<1>1. CASE ReceiveMalformed
  BY <1>1, <1>a DEF ReceiveMalformed, RejectMalformed, gatewayVars
<1>2. ASSUME NEW r \in Request, ReceiveHalted(r) PROVE KeepsBooks
  BY <1>2, <1>a DEF ReceiveHalted, HaltFailSafe
<1>3. ASSUME NEW r \in Request, NEW scored \in CommitDecision, ReceiveWithoutCommand(r, scored)
      PROVE KeepsBooks
  BY <1>3, <1>a DEF ReceiveWithoutCommand, Decide
<1>4. ASSUME NEW r \in Request, NEW c \in Command, ReceiveCommand(r, c) PROVE KeepsBooks
  BY <1>4, <1>b DEF ReceiveCommand, Submits
<1>5. ASSUME NEW id \in Id, IssueToken(id) \/ LoseToken(id) PROVE KeepsBooks
  BY <1>5, <1>a DEF IssueToken, LoseToken, vars
<1>7. ASSUME NEW id \in Id, NEW verdict, NEW remember, PresentToken(id, verdict, remember)
      PROVE KeepsBooks
  BY <1>7, <1>a DEF PresentToken, vars
<1>8. ASSUME NEW v \in verdicts, ApplyVerdict(v) PROVE KeepsBooks \/ \E c : Books(c)
  <2>1. CASE RefusePending(v)
    BY <2>1, <1>a DEF RefusePending
  <2>2. CASE LoseVerdict(v)
    BY <2>2 DEF LoseVerdict, Take, Remembering, Books, vars
  <2>3. CASE ApprovePending(v)
    BY <2>3 DEF ApprovePending, Take, Remembering, Books
  <2>4. CASE PassOn(v)
    BY <2>4, <1>a DEF PassOn, vars
  <2>5. CASE ResumeSuspended(v)
    <3> DEFINE log == [request |-> v.id, decision |-> "ASSERT", verdict |-> "approve"]
    <3>1. UNCHANGED <<grants, consented, recorded>>
      BY <2>5 DEF ResumeSuspended
    <3>2. \/ UNCHANGED issued
          \/ /\ v.id \in DOMAIN suspended
             /\ \E c \in Command, captured \in MemoryCaptures :
                  Submits(c, log, DecisionRecords(log, captured))
      BY <2>5 DEF ResumeSuspended, ResumeDenied, Resume, ResumeThrows, RecordingThrows, Throws,
                  Submits, vars
    <3>3. v.id \in DOMAIN suspended => v.id \in Request
      BY GatewayAssumption, ControllerAssumption DEF IdsInv, Verdict, Id, AnyRequest
    <3> QED BY <3>1, <3>2, <3>3, <1>a, <1>b
  <2> QED BY <1>8, <2>1, <2>2, <2>3, <2>4, <2>5 DEF ApplyVerdict
<1>9. ASSUME NEW c \in Command, NEW succeeded \in BOOLEAN, Finish(c, succeeded) PROVE KeepsBooks
  BY <1>9, <1>a DEF Finish
<1>10. CASE GatewayLoseHealth \/ UNCHANGED allVars
  BY <1>10, <1>a DEF GatewayLoseHealth, LoseHealth, allVars, vars, gatewayVars
<1>11. ASSUME NEW r \in AnyRequest, ReceiveThrows(r) PROVE KeepsBooks
  BY <1>11, <1>a DEF ReceiveThrows, DecideThrows, RecordingThrows, Throws, gatewayVars
<1>12. ASSUME NEW c \in Command, FinishThrows(c) PROVE KeepsBooks
  BY <1>12, <1>a DEF FinishThrows
<1> QED
  BY <1>1, <1>2, <1>3, <1>4, <1>5, <1>7, <1>8, <1>9, <1>10, <1>11, <1>12 DEF GatewayNext

-----------------------------------------------------------------------------
(* What is remembered of issued commands is never forgotten or rewritten.   *)
IssuedGrowsOnly ==
  /\ DOMAIN issued \subseteq DOMAIN issued'
  /\ \A c \in DOMAIN issued : issued'[c] = issued[c]

(* No step rewrites the log of an issued command.                           *)
LEMMA ShapedGrows == Shaped => IssuedGrowsOnly
<1> SUFFICES ASSUME Shaped PROVE IssuedGrowsOnly
  OBVIOUS
<1>1. CASE UNCHANGED issued
  BY <1>1 DEF IssuedGrowsOnly
<1>2. ASSUME NEW c, Emits(c) PROVE IssuedGrowsOnly
  BY <1>2 DEF Emits, IssuedGrowsOnly
<1> QED BY <1>1, <1>2 DEF Shaped, Quiet, Settles, Ends

(* Every command and grant stands on a request and an approval that are in
   the books.                                                               *)
BooksInv ==
  /\ LedgerInv
  /\ consented \subseteq DOMAIN issued /\ recorded \subseteq consented

(* The books stay in order, whichever verdict is applied to them.           *)
LEMMA BooksInvStep ==
  LifeInv /\ BooksInv /\ IssuedGrowsOnly /\ (KeepsBooks \/ \E c : Books(c)) => BooksInv'
<1> SUFFICES ASSUME LifeInv, BooksInv, IssuedGrowsOnly, KeepsBooks \/ \E c : Books(c)
             PROVE  BooksInv'
  OBVIOUS
<1>1. ASSUME NEW entry, Remembered(entry) PROVE Remembered(entry)'
  BY <1>1 DEF Remembered, IssuedGrowsOnly, ContextOf
<1>2. CASE KeepsBooks
  <2>1. \A c \in DOMAIN issued' : issued'[c].request \in Request
    BY <1>2 DEF KeepsBooks, BooksInv, LedgerInv, IssuedGrowsOnly
  <2>2. LedgerInv'
    BY <1>1, <1>2, <2>1 DEF KeepsBooks, BooksInv, LedgerInv, IsSeq
  <2> QED BY <1>2, <2>2 DEF KeepsBooks, BooksInv, IssuedGrowsOnly
<1>3. ASSUME NEW c, Books(c) PROVE BooksInv'
  <2>1. c \in DOMAIN issued
    BY <1>3 DEF Books, LifeInv, Waiting
  <2>2. /\ \A d \in DOMAIN issued' : issued'[d].request \in Request
        /\ consented' \subseteq DOMAIN issued' /\ recorded' \subseteq consented'
    BY <1>3, <2>1 DEF Books, BooksInv, LedgerInv
  <2>3. CASE UNCHANGED grants
    BY <1>1, <2>2, <2>3 DEF BooksInv, LedgerInv, IsSeq
  <2>4. ASSUME NEW isPath, NEW mode,
               LET grant == RememberedGrant(ContextOf(issued[c]), isPath, mode, Never)
               IN grants' = Append(grants, [grant |-> grant, from |-> c])
        PROVE  BooksInv'
    <3> DEFINE given == RememberedGrant(ContextOf(issued[c]), isPath, mode, Never)
               entry == [grant |-> given, from |-> c]
    <3>1. Remembered(entry)
      BY <2>1 DEF Remembered
    <3>a. grants' = Append(grants, entry) /\ IsSeq(grants)
      BY <2>4 DEF BooksInv, LedgerInv
    <3> HIDE DEF entry
    <3>2. /\ IsSeq(grants)' /\ \A i \in DOMAIN grants : grants'[i] = grants[i]
          /\ \A i \in DOMAIN grants' \ DOMAIN grants : grants'[i] = entry
      BY <3>a, AppendFacts DEF IsSeq
    <3>3. LedgerInv'
      BY <1>1, <2>2, <3>1, <3>2 DEF BooksInv, LedgerInv
    <3> QED BY <2>2, <3>3 DEF BooksInv
  <2> QED BY <1>3, <2>3, <2>4 DEF Books
<1> QED BY <1>2, <1>3

(* Grants are only ever added.                                              *)
LEMMA GrantsGrow ==
  ASSUME BooksInv, KeepsBooks \/ \E c : Books(c)
  PROVE  /\ consented \subseteq consented' /\ DOMAIN grants \subseteq DOMAIN grants'
         /\ \A i \in DOMAIN grants : grants'[i] = grants[i]
<1>1. IsSeq(grants)
  BY DEF BooksInv, LedgerInv
<1>2. \A e : /\ DOMAIN grants \subseteq DOMAIN Append(grants, e)
             /\ \A i \in DOMAIN grants : Append(grants, e)[i] = grants[i]
  BY <1>1, AppendFacts
<1> QED BY <1>2 DEF KeepsBooks, Books

-----------------------------------------------------------------------------
(* What ran unasked is covered.                                             *)
(* What runs without consent is what the policy allowed when it was emitted,
   and grants are only ever added.                                          *)
LEMMA CoverStep ==
  ASSUME LifeInv, BooksInv, UnaskedRunsAreCovered, Shaped, KeepsBooks \/ \E c : Books(c)
  PROVE  UnaskedRunsAreCovered'
<1>1. IssuedGrowsOnly
  BY ShapedGrows
<1>2. ASSUME NEW log, Covered(log) PROVE Covered(log)'
  <2> DEFINE ctx == ContextOf(log)
  <2> HIDE DEF ctx
  <2>1. ASSUME NEW i \in DOMAIN grants, Covers(i, ctx) PROVE i \in DOMAIN grants' /\ Covers(i, ctx)'
    BY <1>1, <2>1, GrantsGrow DEF Covers, IssuedGrowsOnly, ContextOf, ctx
  <2> QED BY <1>2, <2>1 DEF Covered, ctx
<1> SUFFICES ASSUME DefaultMode # "full_access", NEW c \in ran' \ consented'
             PROVE  Covered(issued[c])'
  BY DEF UnaskedRunsAreCovered
<1>3. CASE c \in ran
  <2>1. c \in ran \ consented /\ issued'[c] = issued[c]
    BY <1>1, <1>3, GrantsGrow DEF LifeInv, IssuedGrowsOnly
  <2>2. Covered(issued[c])
    BY <2>1 DEF UnaskedRunsAreCovered
  <2> QED BY <1>2, <2>1, <2>2 DEF Covered, Covers
<1>4. CASE c \notin ran
  <2>1. Evaluation(issued'[c]) = "allow"
    <3>1. \E d \in Command : Emits(d) \/ Settles(d) \/ Ends(d)
      BY <1>4 DEF Shaped, Quiet, Stays
    <3>2. \E d \in Command : Emits(d)
      BY <1>4, <3>1 DEF Settles, Ends, Enters
    <3> QED BY <1>4, <3>2 DEF Emits, Enters
  <2>a. PICK log : log = issued'[c] /\ Evaluation(log) = "allow"
    BY <2>1
  <2>2. Covered(log)
    BY <2>a, AllowedIsCovered DEF BooksInv, Covered
  <2>3. Covered(log)'
    BY <1>2, <2>2
  <2> QED BY <2>a, <2>3 DEF Covered, Covers
<1> QED BY <1>3, <1>4

-----------------------------------------------------------------------------
GatewayInv == LifeInv /\ IdsInv /\ BooksInv /\ UnaskedRunsAreCovered

(* The gateway starts with empty books, but for the grant file.             *)
LEMMA GatewayInvInit == GatewayInit => GatewayInv
<1> SUFFICES ASSUME GatewayInit PROVE GatewayInv
  OBVIOUS
<1>1. /\ inflight = << >> /\ suspended = << >> /\ issued = << >> /\ audit = {} /\ dangling = {}
      /\ issuing = {} /\ tokens = {} /\ pending = {} /\ verdicts = {} /\ executing = {}
      /\ ran = {} /\ consented = {} /\ recorded = {} /\ grants \in BootGrants
  BY DEF GatewayInit, Init
<1>2. DOMAIN inflight = {} /\ DOMAIN issued = {} /\ DOMAIN suspended = {}
  BY <1>1
<1>3. LifeInv
  BY <1>1, <1>2 DEF LifeInv, Waiting, Chain, RefusedIn, ApprovedIn, AskedIn, EndedIn
<1>4. IdsInv
  BY <1>1, <1>2 DEF IdsInv
<1>5. BooksInv
  BY <1>1, <1>2, GatewayAssumption DEF BooksInv, LedgerInv, IsSeq
<1> QED BY <1>1, <1>3, <1>4, <1>5 DEF GatewayInv, UnaskedRunsAreCovered

(* The inductive invariant of the gateway is kept by every step.            *)
LEMMA GatewayInvStep == GatewayInv /\ [GatewayNext]_allVars => GatewayInv'
<1> SUFFICES ASSUME GatewayInv, [GatewayNext]_allVars PROVE GatewayInv'
  OBVIOUS
<1>1. Shaped /\ (KeepsBooks \/ \E c : Books(c))
  BY StepShaped, BooksStep DEF GatewayInv
<1>2. LifeInv' /\ IdsInv' /\ IssuedGrowsOnly
  BY <1>1, LifeShaped, IdsStep, ShapedGrows DEF GatewayInv
<1>3. BooksInv'
  BY <1>1, <1>2, BooksInvStep DEF GatewayInv
<1>4. UnaskedRunsAreCovered'
  BY <1>1, CoverStep DEF GatewayInv
<1> QED BY <1>2, <1>3, <1>4 DEF GatewayInv

(* The parts of the inductive invariant hold of the gateway at all times.   *)
THEOREM GatewayIsConsistent == GatewaySpec => []GatewayInv
BY GatewayInvInit, GatewayInvStep, PTL DEF GatewaySpec

(* Tokens, verdicts and grants are bound to known ids; what runs was issued;
   and a grant is recorded only of a command a human approved.              *)
THEOREM GatewayTypes == GatewaySpec => []GatewayTypeOK
<1>1. GatewayInv => GatewayTypeOK
  BY DEF GatewayInv, LifeInv, IdsInv, BooksInv, LedgerInv, Remembered, GatewayTypeOK
<1> QED BY <1>1, GatewayIsConsistent, PTL

(* A command a human may still approve is in flight, has not run, and the
   audit chain holds its approval request and no end of it, over any number
   of requests, tokens, verdicts, lost writes and lifted suspensions.    *)
THEOREM PendingStaysLive == GatewaySpec => []PendingIsLive
<1>1. GatewayInv => PendingIsLive
  BY DEF GatewayInv, LifeInv, PendingIsLive, Waiting, AskedIn, RefusedIn
<1> QED BY <1>1, GatewayIsConsistent, PTL

(* The audit chain tells what happened: a refused command never ran, whatever
   ran is there as approved, and feedback is there iff the run has ended.*)
THEOREM AuditTellsWhatRan == GatewaySpec => []AuditMatchesExecution
<1>1. GatewayInv => AuditMatchesExecution
  BY DEF GatewayInv, LifeInv, AuditMatchesExecution, ApprovedIn, RefusedIn, EndedIn
<1> QED BY <1>1, GatewayIsConsistent, PTL

(* Unless full access is the default, no command runs on nobody's approval but
   on a grant that covers it; the most specific grant that matches settles
   that, whatever else is in the store.                                  *)
THEOREM UnaskedRunsStayCovered == GatewaySpec => []UnaskedRunsAreCovered
<1>1. GatewayInv => UnaskedRunsAreCovered
  BY DEF GatewayInv
<1> QED BY <1>1, GatewayIsConsistent, PTL

-----------------------------------------------------------------------------
(* The authority boundary: the abstract status of every command follows its
   life, so that each shape of a step is one abstract step or none.         *)

(* The mapped variables of AuthorityBoundary.                               *)
Statuses == [c \in Command |-> StatusOf(c)]
UnderReview == {c \in DOMAIN issued : FinalReviewOf(c)}

(* The standing of a command is settled by four memberships.                *)
SameStanding(d) ==
  /\ d \in DOMAIN issued' <=> d \in DOMAIN issued
  /\ d \in executing' <=> d \in executing
  /\ d \in ran' <=> d \in ran
  /\ d \in DOMAIN inflight' <=> d \in DOMAIN inflight

(* Under the life invariant the cases of StatusOf are what they say.        *)
LEMMA StatusUnderLife ==
  ASSUME LifeInv, NEW c \in Command
  PROVE  /\ StatusOf(c) = "idle" <=> c \notin DOMAIN issued
         /\ StatusOf(c) = "running" <=> c \in executing
         /\ StatusOf(c) = "finished" <=> c \in ran \ executing
         /\ StatusOf(c) = "waiting" <=> c \in DOMAIN inflight \ ran
         /\ StatusOf(c) = "refused" <=> c \in DOMAIN issued \ (ran \cup DOMAIN inflight)
BY DEF LifeInv, StatusOf

(* A step that leaves the standing of all others alone moves one status.    *)
LEMMA OneMoves ==
  ASSUME NEW c \in Command, NEW to, StatusOf(c)' = to,
         \A d \in Command \ {c} : SameStanding(d)
  PROVE  Statuses' = [Statuses EXCEPT ![c] = to]
<1>1. \A d \in Command \ {c} : StatusOf(d)' = StatusOf(d)
  BY DEF SameStanding, StatusOf
<1> QED BY <1>1 DEF Statuses

(* ... and one that leaves everyone's alone moves none.                     *)
LEMMA NoneMoves == (\A d \in Command : SameStanding(d)) => UNCHANGED Statuses
<1> SUFFICES ASSUME \A d \in Command : SameStanding(d) PROVE UNCHANGED Statuses
  OBVIOUS
<1>1. \A d \in Command : StatusOf(d)' = StatusOf(d)
  BY DEF SameStanding, StatusOf
<1> QED BY <1>1 DEF Statuses

(* What needs final review is settled when a command is issued.             *)
LEMMA ReviewStays == UNCHANGED issued => UNCHANGED UnderReview
BY DEF UnderReview, FinalReviewOf, ContextOf

(* Emitting a command is Clear or Hold, settling it Judge, ending its run
   Finish; every other step is invisible at the boundary.                *)
LEMMA StepKeepsBoundary ==
  ASSUME LifeInv, LifeInv', Shaped
  PROVE  [Boundary!Next]_<<Statuses, UnderReview>>
<1>0. \A c \in Command : Statuses[c] = StatusOf(c)
  BY DEF Statuses
<1>1. CASE Quiet
  <2>1. \A d \in Command : SameStanding(d)
    BY <1>1 DEF Quiet, Stays, SameStanding
  <2> QED BY <1>1, <2>1, NoneMoves, ReviewStays DEF Quiet
<1>2. ASSUME NEW c \in Command, Emits(c) PROVE Boundary!Next
  <2>1. \A d \in Command \ {c} : SameStanding(d)
    BY <1>2 DEF Emits, Joins, Enters, SameStanding
  <2>2. Statuses[c] = "idle"
    BY <1>0, <1>2, StatusUnderLife DEF Emits, Fresh
  <2>3. UnderReview' = UnderReview
          \cup (IF FinalReviewRequired(ContextOf(issued'[c])) THEN {c} ELSE {})
    BY <1>2 DEF Emits, UnderReview, FinalReviewOf, ContextOf
  <2>4. CASE /\ Joins(c) /\ Enters(c)
             /\ Evaluation(issued'[c]) = "allow"
    <3>1. StatusOf(c)' = "running"
      BY <1>2, <2>4 DEF Emits, Enters, StatusOf
    <3>2. ~FinalReviewRequired(ContextOf(issued'[c]))
      BY <2>4, FinalReviewIsNeverAllowed DEF Evaluation
    <3>3. Statuses' = [Statuses EXCEPT ![c] = "running"] /\ UnderReview' = UnderReview
      BY <2>1, <2>3, <3>1, <3>2, OneMoves
    <3>4. Boundary!Clear(c)
      BY <2>2, <3>3 DEF Boundary!Clear, Boundary!Move, Statuses, UnderReview
    <3> QED BY <3>4 DEF Boundary!Next
  <2>5. CASE (DOMAIN inflight' = DOMAIN inflight \/ Joins(c)) /\ UNCHANGED <<executing, ran>>
    <3>1. c \notin executing /\ c \notin ran /\ c \notin DOMAIN inflight /\ c \in DOMAIN issued'
      BY <1>2 DEF Emits, Fresh, LifeInv
    <3>2. StatusOf(c)' = "waiting" \/ StatusOf(c)' = "refused"
      BY <2>5, <3>1 DEF Joins, StatusOf
    <3>3. /\ \/ Statuses' = [Statuses EXCEPT ![c] = "waiting"]
             \/ Statuses' = [Statuses EXCEPT ![c] = "refused"]
          /\ UnderReview' \in {UnderReview, UnderReview \cup {c}}
      BY <2>1, <2>3, <3>2, OneMoves
    <3>4. Boundary!Hold(c)
      BY <2>2, <3>3 DEF Boundary!Hold, Boundary!Move, Statuses, UnderReview
    <3> QED BY <3>4 DEF Boundary!Next
  <2>6. \/ (DOMAIN inflight' = DOMAIN inflight \/ Joins(c)) /\ UNCHANGED <<executing, ran>>
        \/ Joins(c) /\ Enters(c) /\ Evaluation(issued'[c]) = "allow"
    BY <1>2 DEF Emits
  <2> QED BY <2>4, <2>5, <2>6
<1>3. ASSUME NEW c \in Command, Settles(c) PROVE [Boundary!Next]_<<Statuses, UnderReview>>
  <2>1. \A d \in Command \ {c} : SameStanding(d)
    BY <1>3 DEF Settles, Leaves, Enters, SameStanding
  <2>2. c \in DOMAIN inflight \ ran /\ c \in DOMAIN issued /\ c \notin executing
    BY <1>3 DEF Settles, LifeInv, Waiting
  <2>3. Statuses[c] = "waiting"
    BY <1>0, <2>2, StatusUnderLife
  <2>4. CASE Leaves(c) \/ Enters(c)
    <3>1. StatusOf(c)' = "running" \/ StatusOf(c)' = "refused"
      BY <1>3, <2>2, <2>4 DEF Settles, Leaves, Enters, StatusOf
    <3>2. /\ \/ Statuses' = [Statuses EXCEPT ![c] = "running"]
             \/ Statuses' = [Statuses EXCEPT ![c] = "refused"]
          /\ UnderReview' = UnderReview
      BY <1>3, <2>1, <3>1, OneMoves, ReviewStays DEF Settles
    <3>3. Boundary!Judge(c)
      BY <2>3, <3>2 DEF Boundary!Judge, Boundary!Move, Statuses, UnderReview
    <3> QED BY <3>3 DEF Boundary!Next
  <2>5. CASE DOMAIN inflight' = DOMAIN inflight /\ UNCHANGED <<executing, ran>>
    <3>1. \A d \in Command : SameStanding(d)
      BY <1>3, <2>5 DEF Settles, SameStanding
    <3> QED BY <1>3, <3>1, NoneMoves, ReviewStays DEF Settles
  <2> QED BY <1>3, <2>4, <2>5 DEF Settles
<1>4. ASSUME NEW c \in Command, Ends(c) PROVE Boundary!Next
  <2>1. \A d \in Command \ {c} : SameStanding(d)
    BY <1>4 DEF Ends, Leaves, SameStanding
  <2>2. Statuses[c] = "running"
    BY <1>0, <1>4, StatusUnderLife DEF Ends
  <2>3. StatusOf(c)' = "finished"
    BY <1>4 DEF Ends, StatusOf, LifeInv
  <2>4. Statuses' = [Statuses EXCEPT ![c] = "finished"] /\ UnderReview' = UnderReview
    BY <1>4, <2>1, <2>3, OneMoves, ReviewStays DEF Ends
  <2>5. Boundary!Finish(c)
    BY <2>2, <2>4 DEF Boundary!Finish, Boundary!Move, Statuses, UnderReview
  <2> QED BY <2>5 DEF Boundary!Next
<1> QED BY <1>1, <1>2, <1>3, <1>4 DEF Shaped

(* The gateway implements the authority boundary: over tokens, verdicts,
   remembered grants, the failure memory and the executor, no command runs
   twice, runs after a refusal, or runs under final review without having
   waited for a human.                                                   *)
THEOREM GatewayKeepsBoundary == GatewaySpec => KeepsAuthorityBoundary
<1>1. GatewayInit => Boundary!Init
  <2> SUFFICES ASSUME GatewayInit PROVE Boundary!Init
    OBVIOUS
  <2>1. DOMAIN issued = {}
    BY DEF GatewayInit, Init
  <2>2. \A c \in Command : StatusOf(c) = "idle"
    BY <2>1, GatewayInvInit, StatusUnderLife DEF GatewayInv
  <2> QED BY <2>1, <2>2 DEF Boundary!Init
<1>2. GatewayInv /\ GatewayInv' /\ [GatewayNext]_allVars
        => [Boundary!Next]_<<Statuses, UnderReview>>
  BY StepShaped, StepKeepsBoundary DEF GatewayInv
<1>3. GatewayInv /\ GatewayInv' /\ [GatewayNext]_allVars
        => [Boundary!Next]_<<[c \in Command |-> StatusOf(c)],
                            {c \in DOMAIN issued : FinalReviewOf(c)}>>
  BY <1>2 DEF Statuses, UnderReview
<1> QED BY <1>1, <1>3, GatewayIsConsistent, PTL
        DEF GatewaySpec, KeepsAuthorityBoundary, Boundary!Spec
=============================================================================
