------------------------ MODULE HdsControllerProofs ------------------------
(***************************************************************************)
(* Proofs about HdsController for every value of its constants: any set of *)
(* requests and commands, any profile of the requests, any bound.          *)
(***************************************************************************)
EXTENDS HdsController, TLAPS

-----------------------------------------------------------------------------
(* The two map operations.                                                  *)

(* Map.set: the key is there with its value, the other keys keep theirs.    *)
LEMMA PutFacts ==
  ASSUME NEW S, NEW T, NEW f \in [S -> T], NEW x, NEW y \in T
  PROVE  /\ Put(f, x, y) \in [S \cup {x} -> T]
         /\ DOMAIN Put(f, x, y) = S \cup {x}
         /\ Put(f, x, y)[x] = y
         /\ \A z \in S : z # x => Put(f, x, y)[z] = f[z]
BY DEF Put

(* Map.delete: the key is gone, the other keys keep their values.           *)
LEMMA DropFacts ==
  ASSUME NEW S, NEW T, NEW f \in [S -> T], NEW x
  PROVE  /\ Drop(f, x) \in [S \ {x} -> T]
         /\ DOMAIN Drop(f, x) = S \ {x}
         /\ \A z \in S \ {x} : Drop(f, x)[z] = f[z]
BY DEF Drop

(* What is appended to the audit chain has the form of a record.            *)
LEMMA EntryTypes ==
  /\ \A log \in Log : DecisionEntry(log) \in AuditRecord
  /\ \A r \in AnyRequest : MemoryEntry(r) \in AuditRecord
  /\ \A c \in Command, d \in GateDecision : GateEntry(c, d) \in AuditRecord
  /\ \A c \in Command, p \in Phase, k \in BOOLEAN : LifecycleEntry(c, p, k) \in AuditRecord
  /\ \A c \in Command, k \in BOOLEAN : FeedbackEntry(c, k) \in AuditRecord
BY DEF AuditRecord, DecisionEntry, MemoryEntry, GateEntry, LifecycleEntry, FeedbackEntry

LEMMA DecisionRecordsTypes ==
  ASSUME NEW log \in Log, NEW captured
  PROVE  DecisionRecords(log, captured) \subseteq AuditRecord
BY EntryTypes DEF DecisionRecords, Log

LEMMA CommitTypes ==
  /\ \A r \in Request, scored \in CommitDecision : CommitOf(r, scored) \in CommitDecision
  /\ \A v \in ResumeVerdict : Lifted(v) \in CommitDecision
BY DEF CommitOf, Lifted, CommitDecision, ResumeVerdict

(* The type invariant without its existential quantifiers.                  *)
TypeFlat ==
  /\ state \in {"IDLE", "DECIDED", "SUSPENDED", "AWAITING_RESUME"}
  /\ inflight \in [DOMAIN inflight -> Log] /\ DOMAIN inflight \subseteq Command
  /\ suspended \in [DOMAIN suspended -> BOOLEAN] /\ DOMAIN suspended \subseteq AnyRequest
  /\ audit \subseteq AuditRecord /\ dangling \subseteq AuditRecord
  /\ issued \in [DOMAIN issued -> Log] /\ DOMAIN issued \subseteq Command
  /\ healthy \in BOOLEAN

LEMMA TypeFlatIsTypeOK == TypeOK <=> TypeFlat
BY DEF TypeOK, TypeFlat

LEMMA TypeFlatIsTypeOKNext == TypeOK' <=> TypeFlat'
BY DEF TypeOK, TypeFlat

LEMMA EmitTypes ==
  ASSUME TypeFlat, NEW c \in Command, NEW log \in Log, Emit(c, log)
  PROVE  /\ inflight' \in [DOMAIN inflight' -> Log] /\ DOMAIN inflight' \subseteq Command
         /\ issued' \in [DOMAIN issued' -> Log] /\ DOMAIN issued' \subseteq Command
<1>1. inflight' = Put(inflight, c, log) /\ issued' = Put(issued, c, log)
  BY DEF Emit
<1>2. /\ inflight' \in [DOMAIN inflight \cup {c} -> Log]
      /\ issued' \in [DOMAIN issued \cup {c} -> Log]
  BY <1>1, PutFacts DEF TypeFlat
<1> QED BY <1>2 DEF TypeFlat

LEMMA SuspendTypes ==
  ASSUME TypeFlat, NEW r \in AnyRequest, NEW b \in BOOLEAN,
         suspended' = Put(suspended, r, b)
  PROVE  suspended' \in [DOMAIN suspended' -> BOOLEAN] /\ DOMAIN suspended' \subseteq AnyRequest
<1>1. suspended' \in [DOMAIN suspended \cup {r} -> BOOLEAN]
  BY PutFacts DEF TypeFlat
<1> QED BY <1>1 DEF TypeFlat

LEMMA DropTypes ==
  ASSUME NEW T, NEW f, NEW x, f \in [DOMAIN f -> T]
  PROVE  Drop(f, x) \in [DOMAIN Drop(f, x) -> T] /\ DOMAIN Drop(f, x) \subseteq DOMAIN f
<1>1. DOMAIN Drop(f, x) = DOMAIN f \ {x}
  BY DEF Drop
<1>2. \A z \in DOMAIN f \ {x} : Drop(f, x)[z] \in T
  BY DEF Drop
<1>3. Drop(f, x) \in [DOMAIN f \ {x} -> T]
  BY <1>2 DEF Drop
<1> QED BY <1>1, <1>3

(* A call that throws may have recorded a decision on a request that has none
   yet, a verdict on a suspended one, or a report on a command; and it leaves
   everything else alone.                                                   *)
ThrowsDeciding(r) ==
  \E log \in Log, captured \in BOOLEAN :
    log.request = r /\ Throws(DecisionRecords(log, captured))

ThrowsReporting ==
  \E e \in AuditRecord : e.kind # "decision" /\ Throws({e}) /\ UNCHANGED state

LEMMA DecideThrowsFacts ==
  ASSUME NEW r \in AnyRequest, DecideThrows(r)
  PROVE  ThrowsDeciding(r) /\ UNCHANGED state /\ (r = InvalidRequest \/ ~Decided(r))
<1>1. Suspension(r) \in Log /\ Suspension(r).request = r
      /\ DecisionRecords(Suspension(r), FALSE) = {DecisionEntry(Suspension(r))}
  BY DEF Suspension, Log, CommitDecision, DecisionRecords
<1>2. CASE Throws({DecisionEntry(Suspension(r))})
  BY <1>1, <1>2 DEF ThrowsDeciding, DecideThrows
<1>3. CASE \E scored \in CommitDecision : r \in Request /\ RecordingThrows(CommitLog(r, scored))
  <2>1. PICK scored \in CommitDecision :
          r \in Request /\ RecordingThrows(CommitLog(r, scored))
    BY <1>3
  <2>2. CommitLog(r, scored) \in Log /\ CommitLog(r, scored).request = r
    BY <2>1, CommitTypes DEF CommitLog, Log
  <2>3. ThrowsDeciding(r)
    BY <2>1, <2>2, ControllerAssumption DEF RecordingThrows, ThrowsDeciding
  <2> QED BY <2>3 DEF DecideThrows
<1> QED BY <1>2, <1>3 DEF DecideThrows

LEMMA ResumeThrowsFacts ==
  ASSUME NEW r \in AnyRequest, NEW v \in ResumeVerdict, ResumeThrows(r, v)
  PROVE  ThrowsDeciding(r) /\ r \in DOMAIN suspended /\ state' = "AWAITING_RESUME"
<1>1. /\ DeniedLog(r, v) \in Log /\ DeniedLog(r, v).request = r
      /\ LiftedLog(r, v) \in Log /\ LiftedLog(r, v).request = r
  BY CommitTypes DEF DeniedLog, LiftedLog, Log, CommitDecision
<1>2. \A log : DecisionRecords(log, FALSE) = {DecisionEntry(log)}
  BY DEF DecisionRecords
<1>3. \/ Throws({DecisionEntry(DeniedLog(r, v))}) \/ Throws({DecisionEntry(LiftedLog(r, v))})
      \/ RecordingThrows(LiftedLog(r, v))
  BY DEF ResumeThrows
<1>4. ThrowsDeciding(r)
  BY <1>1, <1>2, <1>3, ControllerAssumption DEF ThrowsDeciding, RecordingThrows
<1> QED BY <1>4 DEF ResumeThrows

LEMMA ReportThrowsFacts ==
  /\ \A c \in Command, d \in GateDecision : ReportThrows(GateEntry(c, d)) => ThrowsReporting
  /\ \A c \in Command, p \in Phase :
       ReportThrows(LifecycleEntry(c, p, c \in DOMAIN inflight)) => ThrowsReporting
  /\ \A c \in Command :
       ReportThrows(FeedbackEntry(c, c \in DOMAIN inflight)) => ThrowsReporting
<1>1. \A c \in Command, d \in GateDecision :
        GateEntry(c, d) \in AuditRecord /\ GateEntry(c, d).kind # "decision"
  BY EntryTypes DEF GateEntry
<1>2. ASSUME NEW c \in Command, NEW p \in Phase, NEW k \in BOOLEAN
      PROVE  /\ LifecycleEntry(c, p, k) \in AuditRecord
             /\ LifecycleEntry(c, p, k).kind # "decision"
             /\ FeedbackEntry(c, k) \in AuditRecord /\ FeedbackEntry(c, k).kind # "decision"
  BY EntryTypes DEF LifecycleEntry, FeedbackEntry
<1>3. \A c : (c \in DOMAIN inflight) \in BOOLEAN
  OBVIOUS
<1>4. ASSUME NEW e \in AuditRecord, e.kind # "decision", ReportThrows(e)
      PROVE  ThrowsReporting
  BY <1>4 DEF ThrowsReporting, ReportThrows
<1>5. ASSUME NEW c \in Command, NEW d \in GateDecision, ReportThrows(GateEntry(c, d))
      PROVE  ThrowsReporting
  <2>1. GateEntry(c, d) \in AuditRecord /\ GateEntry(c, d).kind # "decision"
    BY <1>1
  <2> QED BY <1>4, <1>5, <2>1
<1>6. ASSUME NEW c \in Command, NEW p \in Phase,
             ReportThrows(LifecycleEntry(c, p, c \in DOMAIN inflight))
      PROVE  ThrowsReporting
  <2> DEFINE k == c \in DOMAIN inflight
  <2>1. LifecycleEntry(c, p, k) \in AuditRecord /\ LifecycleEntry(c, p, k).kind # "decision"
    BY <1>2, <1>3
  <2> QED BY <1>4, <1>6, <2>1
<1>7. ASSUME NEW c \in Command, ReportThrows(FeedbackEntry(c, c \in DOMAIN inflight))
      PROVE  ThrowsReporting
  <2> DEFINE k == c \in DOMAIN inflight
  <2>1. FeedbackEntry(c, k) \in AuditRecord /\ FeedbackEntry(c, k).kind # "decision"
    BY EntryTypes, <1>3 DEF FeedbackEntry
  <2> QED BY <1>4, <1>7, <2>1
<1> QED BY <1>5, <1>6, <1>7

(* The steps of the controller that throw.                                  *)
ThrowingNext ==
  \/ \E r \in AnyRequest : DecideThrows(r) \/ \E v \in ResumeVerdict : ResumeThrows(r, v)
  \/ ThrowsReporting

LEMMA ThrowingTypes ==
  ASSUME TypeFlat, ThrowingNext
  PROVE  /\ UNCHANGED <<audit, inflight, suspended, issued, healthy>>
         /\ dangling' \subseteq AuditRecord /\ state' \in {state, "AWAITING_RESUME"}
<1>1. CASE ThrowsReporting
  BY <1>1 DEF ThrowsReporting, Throws, Dangle, TypeFlat
<1>2. ASSUME NEW r \in AnyRequest, ThrowsDeciding(r)
      PROVE  /\ UNCHANGED <<audit, inflight, suspended, issued, healthy>>
             /\ dangling' \subseteq AuditRecord
  BY <1>2, DecisionRecordsTypes DEF ThrowsDeciding, Throws, Dangle, TypeFlat
<1> QED BY <1>1, <1>2, DecideThrowsFacts, ResumeThrowsFacts DEF ThrowingNext

(* Typing is inductive.                                                     *)
LEMMA TypeStep == TypeFlat /\ [Next]_vars => TypeFlat'
<1> SUFFICES ASSUME TypeFlat, [Next]_vars PROVE TypeFlat'
  OBVIOUS
<1> USE DEF TypeFlat
<1>0. InvalidRequest \in AnyRequest /\ Request \subseteq AnyRequest
  BY DEF AnyRequest
<1>1. CASE RejectMalformed
  <2> DEFINE log == Suspension(InvalidRequest)
  <2>1. log \in Log
    BY <1>0 DEF Log, CommitDecision, Suspension
  <2>2. audit' \subseteq AuditRecord
    BY <1>1, <2>1, EntryTypes DEF RejectMalformed, Append1
  <2>3. suspended' \in [DOMAIN suspended' -> BOOLEAN] /\ DOMAIN suspended' \subseteq AnyRequest
    BY <1>0, <1>1, SuspendTypes DEF RejectMalformed
  <2> QED BY <1>1, <2>2, <2>3 DEF RejectMalformed, Append1
<1>2. ASSUME NEW r \in Request, HaltFailSafe(r) PROVE TypeFlat'
  <2> DEFINE log == Suspension(r)
  <2>1. log \in Log
    BY <1>0 DEF Log, CommitDecision, Suspension
  <2>2. audit' \subseteq AuditRecord
    BY <1>2, <2>1, EntryTypes DEF HaltFailSafe, Append1
  <2>3. suspended' \in [DOMAIN suspended' -> BOOLEAN] /\ DOMAIN suspended' \subseteq AnyRequest
    BY <1>0, <1>2, SuspendTypes DEF HaltFailSafe
  <2> QED BY <1>2, <2>2, <2>3 DEF HaltFailSafe, Append1
<1>3. ASSUME NEW r \in Request, NEW scored \in CommitDecision, Decide(r, scored)
      PROVE TypeFlat'
  <2> DEFINE log == CommitLog(r, scored)
  <2>1. log \in Log
    BY <1>0, CommitTypes DEF Log, CommitLog
  <2>2. audit' \subseteq AuditRecord
    BY <1>3, <2>1, DecisionRecordsTypes DEF Decide, RecordDecision
  <2>3. CASE \E c \in Command : Emit(c, log) /\ state' = "DECIDED" /\ UNCHANGED suspended
    BY <1>3, <2>1, <2>2, <2>3, EmitTypes DEF Decide, RecordDecision
  <2>4. CASE /\ suspended' = Put(suspended, r, TRUE) /\ state' = "SUSPENDED"
             /\ UNCHANGED <<inflight, issued>>
    <3>1. suspended' \in [DOMAIN suspended' -> BOOLEAN] /\ DOMAIN suspended' \subseteq AnyRequest
      BY <1>0, <2>4, SuspendTypes
    <3> QED BY <1>3, <2>2, <2>4, <3>1 DEF Decide, RecordDecision
  <2>5. CASE state' = "DECIDED" /\ UNCHANGED <<suspended, inflight, issued>>
    BY <1>3, <2>2, <2>5 DEF Decide, RecordDecision
  <2> QED BY <1>3, <2>3, <2>4, <2>5 DEF Decide
<1>4. ASSUME NEW r \in AnyRequest, NEW v \in ResumeVerdict, ResumeDenied(r, v)
      PROVE TypeFlat'
  <2> DEFINE log == DeniedLog(r, v)
  <2>1. log \in Log
    BY DEF Log, CommitDecision, DeniedLog
  <2>2. audit' \subseteq AuditRecord
    BY <1>4, <2>1, EntryTypes DEF ResumeDenied, Append1
  <2> QED BY <1>4, <2>2 DEF ResumeDenied, Append1
<1>5. ASSUME NEW r \in AnyRequest, NEW v \in ResumeVerdict, Resume(r, v) PROVE TypeFlat'
  <2> DEFINE log == LiftedLog(r, v)
  <2>1. log \in Log
    BY CommitTypes DEF Log, LiftedLog
  <2>2. audit' \subseteq AuditRecord
    BY <1>5, <2>1, DecisionRecordsTypes DEF Resume, RecordDecision
  <2>3. suspended' \in [DOMAIN suspended' -> BOOLEAN] /\ DOMAIN suspended' \subseteq AnyRequest
    BY <1>5, DropTypes DEF Resume
  <2>4. CASE \E c \in Command : Emit(c, log)
    BY <1>5, <2>1, <2>2, <2>3, <2>4, EmitTypes DEF Resume, RecordDecision
  <2>5. CASE UNCHANGED <<inflight, issued>>
    BY <1>5, <2>2, <2>3, <2>5 DEF Resume, RecordDecision
  <2> QED BY <1>5, <2>4, <2>5 DEF Resume
<1>6. ASSUME NEW c \in Command, NEW d \in GateDecision, OnApprovalEvaluation(c, d)
      PROVE TypeFlat'
  BY <1>6, EntryTypes DEF OnApprovalEvaluation, Append1
<1>7. ASSUME NEW c \in Command, NEW p \in Phase, OnCommandLifecycle(c, p)
      PROVE TypeFlat'
  <2> DEFINE k == c \in DOMAIN inflight
  <2>0. k \in BOOLEAN
    OBVIOUS
  <2>4. LifecycleEntry(c, p, k) \in AuditRecord
    BY <2>0, EntryTypes
  <2>1. audit' \subseteq AuditRecord
    BY <1>7, <2>4 DEF OnCommandLifecycle, Append1
  <2>2. inflight' = inflight \/ inflight' = Drop(inflight, c)
    BY <1>7 DEF OnCommandLifecycle
  <2>5. Drop(inflight, c) \in [DOMAIN Drop(inflight, c) -> Log]
        /\ DOMAIN Drop(inflight, c) \subseteq DOMAIN inflight
    BY DropTypes
  <2>3. inflight' \in [DOMAIN inflight' -> Log] /\ DOMAIN inflight' \subseteq Command
    BY <2>2, <2>5
  <2> QED BY <1>7, <2>1, <2>3 DEF OnCommandLifecycle, Append1
<1>8. ASSUME NEW c \in Command, OnFeedback(c) PROVE TypeFlat'
  <2> DEFINE k == c \in DOMAIN inflight
  <2>0. k \in BOOLEAN
    OBVIOUS
  <2>3. FeedbackEntry(c, k) \in AuditRecord
    BY <2>0, EntryTypes
  <2>1. audit' \subseteq AuditRecord
    BY <1>8, <2>3 DEF OnFeedback, Append1
  <2>2. inflight' \in [DOMAIN inflight' -> Log] /\ DOMAIN inflight' \subseteq Command
    BY <1>8, DropTypes DEF OnFeedback
  <2> QED BY <1>8, <2>1, <2>2 DEF OnFeedback, Append1
<1>9. CASE LoseHealth
  BY <1>9 DEF LoseHealth
<1>10. CASE UNCHANGED vars
  BY <1>10 DEF vars
<1>11. CASE ThrowingNext
  BY <1>11, ThrowingTypes
<1> QED
  BY <1>1, <1>2, <1>3, <1>4, <1>5, <1>6, <1>7, <1>8, <1>9, <1>10, <1>11, ReportThrowsFacts
  DEF Next, ThrowingNext

(* Every variable of the controller keeps its type.                         *)
THEOREM TypeCorrect == Spec => []TypeOK
<1>1. Init => TypeFlat
  BY DEF Init, TypeFlat
<1>2. TypeFlat => TypeOK
  BY TypeFlatIsTypeOK
<1> QED BY <1>1, <1>2, TypeStep, PTL DEF Spec
-----------------------------------------------------------------------------
(* The inductive invariant.  Of the audit chain it sees the decision logs,  *)
(* and which commands have an end credited to them.                         *)

Said == {log \in Log : DecisionEntry(log) \in audit}
Lost == {log \in Log : DecisionEntry(log) \in dangling}

RefusalCredited(c) ==
  \E p \in {"approval_rejected", "approval_cancelled"} : LifecycleEntry(c, p, TRUE) \in audit
FeedbackCredited(c) == FeedbackEntry(c, TRUE) \in audit

InflightIsIssued ==
  \A c \in DOMAIN inflight : c \in DOMAIN issued /\ issued[c] = inflight[c]

(* An emitted command stands on a recorded ASSERT; whatever else was said of
   its request was a SUSPEND that an approval lifted, and is lifted for good. *)
IssuedIsDecided ==
  \A c \in DOMAIN issued :
    /\ issued[c].decision = "ASSERT"
    /\ issued[c] \in Said
    /\ issued[c].request \in Request
    /\ issued[c].request \notin DOMAIN suspended
    /\ \A log \in Said : log.request = issued[c].request =>
         \/ log.decision = "ASSERT"
         \/ log.decision = "SUSPEND" /\ issued[c].verdict = "approve"

(* A suspended request has been decided, and as long as a human may lift it,
   nothing but SUSPEND was ever said of it.                                 *)
SuspendedIsDecided ==
  \A r \in DOMAIN suspended :
    /\ \E log \in Said : log.request = r
    /\ suspended[r] => /\ r \in Request
                       /\ \A log \in Said : log.request = r => log.decision = "SUSPEND"

(* Authority is checked when a request is suspended, and not again when it
   is lifted: so it has to hold of what may still be lifted.                *)
AuthorityIsChecked ==
  /\ \A c \in DOMAIN issued : ~ProcessAuthorityViolation(Profile[issued[c].request])
  /\ \A r \in DOMAIN suspended : suspended[r] => ~ProcessAuthorityViolation(Profile[r])

EndIsFinal ==
  \A c \in Command :
    /\ RefusalCredited(c) \/ FeedbackCredited(c) => c \in DOMAIN issued \ DOMAIN inflight
    /\ ~(RefusalCredited(c) /\ FeedbackCredited(c))

IInv ==
  /\ TypeOK
  /\ InflightIsIssued
  /\ IssuedIsDecided
  /\ OneCommandPerRequest
  /\ SuspendedIsDecided
  /\ AuthorityIsChecked
  /\ DirectCommandsObeyPolicy
  /\ EndIsFinal

-----------------------------------------------------------------------------
(* What an appended record changes in that view of the chain.               *)

LEMMA SaidOfRecord ==
  ASSUME TypeFlat, NEW e \in Chain, e.kind = "decision"
  PROVE  /\ e \in audit => e.log \in Said
         /\ e \notin audit => e.log \in Lost
<1>1. e \in AuditRecord
  BY DEF TypeFlat, Chain
<1>2. e \in [kind: {"decision"}, log: Log]
  BY <1>1 DEF AuditRecord
<1>3. e.log \in Log /\ e = DecisionEntry(e.log)
  BY <1>2 DEF DecisionEntry
<1> QED BY <1>3 DEF Said, Lost, Chain

LEMMA SayingLog ==
  ASSUME NEW log \in Log, NEW captured, audit' = audit \cup DecisionRecords(log, captured)
  PROVE  /\ Said' = Said \cup {log}
         /\ \A c \in Command : (RefusalCredited(c)' <=> RefusalCredited(c))
                            /\ (FeedbackCredited(c)' <=> FeedbackCredited(c))
<1>1. \A other \in Log : DecisionEntry(other) \in DecisionRecords(log, captured) <=> other = log
  BY DEF DecisionRecords, DecisionEntry, MemoryEntry
<1>2. \A c, p : LifecycleEntry(c, p, TRUE) \notin DecisionRecords(log, captured)
  BY DEF DecisionRecords, DecisionEntry, MemoryEntry, LifecycleEntry
<1>3. \A c : FeedbackEntry(c, TRUE) \notin DecisionRecords(log, captured)
  BY DEF DecisionRecords, DecisionEntry, MemoryEntry, FeedbackEntry
<1>4. Said' = Said \cup {log}
  BY <1>1 DEF Said
<1> QED BY <1>2, <1>3, <1>4 DEF RefusalCredited, FeedbackCredited

LEMMA SayingEntry ==
  ASSUME NEW log \in Log, audit' = audit \cup {DecisionEntry(log)}
  PROVE  /\ Said' = Said \cup {log}
         /\ \A c \in Command : (RefusalCredited(c)' <=> RefusalCredited(c))
                            /\ (FeedbackCredited(c)' <=> FeedbackCredited(c))
<1>1. DecisionRecords(log, FALSE) = {DecisionEntry(log)}
  BY DEF DecisionRecords
<1> QED BY <1>1, SayingLog

LEMMA SayingNothing ==
  ASSUME NEW e, e.kind # "decision", audit' = audit \cup {e}
  PROVE  Said' = Said
BY DEF Said, DecisionEntry

-----------------------------------------------------------------------------
(* What an emission and a suspension change.                                *)

LEMMA EmitFacts ==
  ASSUME TypeFlat, InflightIsIssued, NEW c \in Command, NEW log \in Log, Emit(c, log)
  PROVE  /\ c \notin DOMAIN issued
         /\ DOMAIN issued' = DOMAIN issued \cup {c} /\ issued'[c] = log
         /\ \A d \in DOMAIN issued : issued'[d] = issued[d]
         /\ DOMAIN inflight' = DOMAIN inflight \cup {c} /\ inflight'[c] = log
         /\ \A d \in DOMAIN inflight : inflight'[d] = inflight[d]
BY DEF Emit, Fresh, Put, InflightIsIssued

LEMMA SuspendFacts ==
  ASSUME NEW r, NEW b, suspended' = Put(suspended, r, b)
  PROVE  /\ DOMAIN suspended' = DOMAIN suspended \cup {r}
         /\ suspended'[r] = b
         /\ \A q \in DOMAIN suspended : q # r => suspended'[q] = suspended[q]
BY DEF Put

LEMMA LiftFacts ==
  ASSUME NEW r, suspended' = Drop(suspended, r)
  PROVE  /\ DOMAIN suspended' = DOMAIN suspended \ {r}
         /\ \A q \in DOMAIN suspended' : suspended'[q] = suspended[q]
BY DEF Drop

LEMMA UndecidedIsUnsaid ==
  ASSUME TypeFlat, NEW r, ~Decided(r)
  PROVE  \A log \in Said : log.request # r
<1> SUFFICES ASSUME NEW log \in Said, log.request = r PROVE FALSE
  OBVIOUS
<1>1. DecisionEntry(log) \in audit /\ DecisionEntry(log).kind = "decision"
      /\ DecisionEntry(log).log = log
  BY DEF Said, DecisionEntry
<1> QED BY <1>1 DEF Decided, Chain

(* A step that says SUSPEND of a request no command was emitted for.        *)
LEMMA SuspendingStep ==
  ASSUME IInv, NEW r \in AnyRequest, NEW b \in BOOLEAN, NEW log \in Log,
         log.request = r, log.decision = "SUSPEND",
         \A c \in DOMAIN issued : issued[c].request # r,
         b => /\ r \in Request /\ ~ProcessAuthorityViolation(Profile[r])
              /\ \A other \in Said : other.request # r,
         suspended' = Put(suspended, r, b),
         Said' = Said \cup {log},
         UNCHANGED <<inflight, issued>>
  PROVE  InflightIsIssued' /\ IssuedIsDecided' /\ OneCommandPerRequest'
         /\ SuspendedIsDecided' /\ AuthorityIsChecked' /\ DirectCommandsObeyPolicy'
<1> USE DEF IInv
<1>0. /\ DOMAIN suspended' = DOMAIN suspended \cup {r}
      /\ suspended'[r] = b
      /\ \A q \in DOMAIN suspended : q # r => suspended'[q] = suspended[q]
  BY SuspendFacts
<1>1. InflightIsIssued' /\ OneCommandPerRequest' /\ DirectCommandsObeyPolicy'
  BY DEF InflightIsIssued, OneCommandPerRequest, DirectCommandsObeyPolicy
<1>2. IssuedIsDecided'
  BY <1>0 DEF IssuedIsDecided
<1>3. SuspendedIsDecided'
  BY <1>0 DEF SuspendedIsDecided
<1>4. AuthorityIsChecked'
  BY <1>0 DEF AuthorityIsChecked
<1> QED BY <1>1, <1>2, <1>3, <1>4

(* A step that emits a command under an ASSERT of a request that is not, or
   from this step on no longer, suspended.                                  *)
LEMMA EmittingStep ==
  ASSUME IInv, NEW r \in Request, NEW c \in Command, NEW log \in Log,
         log.request = r, log.decision = "ASSERT",
         ~ProcessAuthorityViolation(Profile[r]),
         log.verdict = "none" => ~ExecutionPolicyViolation(Profile[r]),
         \A d \in DOMAIN issued : issued[d].request # r,
         \A other \in Said : other.request = r =>
           other.decision = "SUSPEND" /\ log.verdict = "approve",
         Emit(c, log),
         Said' = Said \cup {log},
         r \notin DOMAIN suspended', DOMAIN suspended' \subseteq DOMAIN suspended,
         \A q \in DOMAIN suspended' : suspended'[q] = suspended[q]
  PROVE  InflightIsIssued' /\ IssuedIsDecided' /\ OneCommandPerRequest'
         /\ SuspendedIsDecided' /\ AuthorityIsChecked' /\ DirectCommandsObeyPolicy'
<1>0. TypeFlat /\ InflightIsIssued
  BY TypeFlatIsTypeOK DEF IInv
<1>1. /\ c \notin DOMAIN issued
      /\ DOMAIN issued' = DOMAIN issued \cup {c} /\ issued'[c] = log
      /\ \A d \in DOMAIN issued : issued'[d] = issued[d]
      /\ DOMAIN inflight' = DOMAIN inflight \cup {c} /\ inflight'[c] = log
      /\ \A d \in DOMAIN inflight : inflight'[d] = inflight[d]
  BY <1>0, EmitFacts
<1>2. InflightIsIssued'
  BY <1>0, <1>1 DEF InflightIsIssued
<1>3. IssuedIsDecided'
  <2>1. ASSUME NEW d \in DOMAIN issued
        PROVE  /\ issued'[d] = issued[d]
               /\ issued[d].decision = "ASSERT" /\ issued[d] \in Said
               /\ issued[d].request \in Request
               /\ issued[d].request \notin DOMAIN suspended
               /\ \A other \in Said : other.request = issued[d].request =>
                    \/ other.decision = "ASSERT"
                    \/ other.decision = "SUSPEND" /\ issued[d].verdict = "approve"
    BY <1>1 DEF IInv, IssuedIsDecided
  <2> QED BY <1>1, <2>1 DEF IssuedIsDecided
<1>4. OneCommandPerRequest'
  BY <1>1 DEF IInv, OneCommandPerRequest
<1>5. SuspendedIsDecided'
  BY DEF IInv, SuspendedIsDecided
<1>6. AuthorityIsChecked' /\ DirectCommandsObeyPolicy'
  BY <1>1 DEF IInv, AuthorityIsChecked, DirectCommandsObeyPolicy
<1> QED BY <1>2, <1>3, <1>4, <1>5, <1>6

(* A step that says no more than SUSPEND of a suspended request, or FAIL or
   OUT_OF_SCOPE of one that has no command and is not suspended after it.   *)
LEMMA SayingStep ==
  ASSUME IInv, NEW r \in AnyRequest, NEW log \in Log, log.request = r,
         \A d \in DOMAIN issued : issued[d].request # r,
         \/ log.decision = "SUSPEND"
         \/ r \notin DOMAIN suspended',
         Said' = Said \cup {log},
         DOMAIN suspended' \subseteq DOMAIN suspended,
         \A q \in DOMAIN suspended' : suspended'[q] = suspended[q],
         UNCHANGED <<inflight, issued>>
  PROVE  InflightIsIssued' /\ IssuedIsDecided' /\ OneCommandPerRequest'
         /\ SuspendedIsDecided' /\ AuthorityIsChecked' /\ DirectCommandsObeyPolicy'
<1> USE DEF IInv
<1>1. InflightIsIssued' /\ OneCommandPerRequest' /\ DirectCommandsObeyPolicy'
  BY DEF InflightIsIssued, OneCommandPerRequest, DirectCommandsObeyPolicy
<1>2. IssuedIsDecided'
  BY DEF IssuedIsDecided
<1>3. SuspendedIsDecided'
  BY DEF SuspendedIsDecided
<1>4. AuthorityIsChecked'
  BY DEF AuthorityIsChecked
<1> QED BY <1>1, <1>2, <1>3, <1>4
(* A report about a command: nothing is said, and commands only leave
   inflight.                                                                *)
LEMMA ReportingStep ==
  ASSUME IInv, Said' = Said, UNCHANGED <<suspended, issued>>,
         DOMAIN inflight' \subseteq DOMAIN inflight,
         \A d \in DOMAIN inflight' : inflight'[d] = inflight[d]
  PROVE  InflightIsIssued' /\ IssuedIsDecided' /\ OneCommandPerRequest'
         /\ SuspendedIsDecided' /\ AuthorityIsChecked' /\ DirectCommandsObeyPolicy'
BY DEF IInv, InflightIsIssued, IssuedIsDecided, OneCommandPerRequest, SuspendedIsDecided,
       AuthorityIsChecked, DirectCommandsObeyPolicy

(* Steps that credit no end: the fate of the commands there are is as it was. *)
LEMMA NoEndStep ==
  ASSUME EndIsFinal,
         \A c \in Command : (RefusalCredited(c)' <=> RefusalCredited(c))
                         /\ (FeedbackCredited(c)' <=> FeedbackCredited(c)),
         DOMAIN issued \subseteq DOMAIN issued',
         \A c \in DOMAIN issued : c \in DOMAIN inflight' => c \in DOMAIN inflight
  PROVE  EndIsFinal'
BY DEF EndIsFinal

(* The end of a command is credited once: it takes the command out of
   inflight, and is credited only to a command found there.                 *)
LEMMA EndStep ==
  ASSUME IInv, NEW c \in Command, NEW refusal \in BOOLEAN,
         \A d \in Command : RefusalCredited(d)' <=>
           RefusalCredited(d) \/ (refusal /\ d = c /\ c \in DOMAIN inflight),
         \A d \in Command : FeedbackCredited(d)' <=>
           FeedbackCredited(d) \/ (~refusal /\ d = c /\ c \in DOMAIN inflight),
         inflight' = Drop(inflight, c), issued' = issued
  PROVE  EndIsFinal'
<1>1. DOMAIN inflight' = DOMAIN inflight \ {c}
  BY DEF Drop
<1>2. c \in DOMAIN inflight => c \in DOMAIN issued
  BY DEF IInv, InflightIsIssued
<1>3. ASSUME NEW d \in Command
      PROVE  /\ RefusalCredited(d) \/ FeedbackCredited(d) => d \in DOMAIN issued \ DOMAIN inflight
             /\ ~(RefusalCredited(d) /\ FeedbackCredited(d))
  BY DEF IInv, EndIsFinal
<1>4. ASSUME NEW d \in Command
      PROVE  /\ RefusalCredited(d)' \/ FeedbackCredited(d)' => d \in DOMAIN issued \ DOMAIN inflight'
             /\ ~(RefusalCredited(d)' /\ FeedbackCredited(d)')
  BY <1>1, <1>2, <1>3
<1> QED BY <1>4 DEF EndIsFinal

(* The invariant holds at first.                                            *)
LEMMA InvariantInit == Init => IInv
<1> SUFFICES ASSUME Init PROVE IInv
  OBVIOUS
<1>1. TypeOK
  BY TypeFlatIsTypeOK DEF Init, TypeFlat
<1>2. DOMAIN inflight = {} /\ DOMAIN issued = {} /\ DOMAIN suspended = {} /\ audit = {}
  BY DEF Init
<1> QED BY <1>1, <1>2
  DEF IInv, InflightIsIssued, IssuedIsDecided, OneCommandPerRequest, SuspendedIsDecided,
      AuthorityIsChecked, DirectCommandsObeyPolicy, EndIsFinal, RefusalCredited, FeedbackCredited

(* No command is emitted for the id that malformed requests share, nor for a
   request that is suspended or undecided.                                  *)
LEMMA NoCommandYet ==
  ASSUME IInv, NEW r, r \in DOMAIN suspended \/ r = InvalidRequest \/ ~Decided(r)
  PROVE  \A c \in DOMAIN issued : issued[c].request # r
<1>1. TypeFlat
  BY TypeFlatIsTypeOK DEF IInv
<1>2. ~Decided(r) => \A log \in Said : log.request # r
  BY <1>1, UndecidedIsUnsaid
<1> QED BY <1>2, ControllerAssumption DEF IInv, IssuedIsDecided

LEMMA InvariantStep == IInv /\ [Next]_vars => IInv'
<1> SUFFICES ASSUME IInv, [Next]_vars PROVE IInv'
  OBVIOUS
<1>0. TypeFlat /\ TypeOK'
  <2>1. TypeFlat
    BY TypeFlatIsTypeOK DEF IInv
  <2> QED BY <2>1, TypeStep, TypeFlatIsTypeOKNext
<1> DEFINE Rest == /\ InflightIsIssued' /\ IssuedIsDecided' /\ OneCommandPerRequest'
                   /\ SuspendedIsDecided' /\ AuthorityIsChecked' /\ DirectCommandsObeyPolicy'
           Goal == Rest /\ EndIsFinal'
<1>a. InvalidRequest \in AnyRequest /\ Request \subseteq AnyRequest /\ EndIsFinal
  BY DEF AnyRequest, IInv
<1>1. ASSUME RejectMalformed PROVE Goal
  <2> DEFINE log == Suspension(InvalidRequest)
  <2>1. log \in Log /\ log.request = InvalidRequest /\ log.decision = "SUSPEND"
    BY <1>a DEF Log, CommitDecision, Suspension
  <2>2. /\ Said' = Said \cup {log}
        /\ \A c \in Command : (RefusalCredited(c)' <=> RefusalCredited(c))
                           /\ (FeedbackCredited(c)' <=> FeedbackCredited(c))
    BY <1>1, <2>1, SayingEntry DEF RejectMalformed, Append1
  <2>3. suspended' = Put(suspended, InvalidRequest, FALSE) /\ UNCHANGED <<inflight, issued>>
    BY <1>1 DEF RejectMalformed
  <2>4. \A c \in DOMAIN issued : issued[c].request # InvalidRequest
    BY NoCommandYet
  <2> HIDE DEF log
  <2>5. Rest
    BY <1>a, <2>1, <2>2, <2>3, <2>4, SuspendingStep
  <2> QED BY <1>a, <2>2, <2>3, <2>5, NoEndStep
<1>2. ASSUME NEW r \in Request, HaltFailSafe(r) PROVE Goal
  <2> DEFINE log == Suspension(r)
  <2>1. log \in Log /\ log.request = r /\ log.decision = "SUSPEND"
    BY <1>a DEF Log, CommitDecision, Suspension
  <2>2. /\ Said' = Said \cup {log}
        /\ \A c \in Command : (RefusalCredited(c)' <=> RefusalCredited(c))
                           /\ (FeedbackCredited(c)' <=> FeedbackCredited(c))
    BY <1>2, <2>1, SayingEntry DEF HaltFailSafe, Append1
  <2>3. suspended' = Put(suspended, r, FALSE) /\ UNCHANGED <<inflight, issued>>
    BY <1>2 DEF HaltFailSafe
  <2>4. \A c \in DOMAIN issued : issued[c].request # r
    BY <1>2, NoCommandYet DEF HaltFailSafe
  <2> HIDE DEF log
  <2>5. Rest
    BY <1>a, <2>1, <2>2, <2>3, <2>4, SuspendingStep
  <2> QED BY <1>a, <2>2, <2>3, <2>5, NoEndStep
<1>3. ASSUME NEW r \in Request, NEW scored \in CommitDecision, Decide(r, scored) PROVE Goal
  <2> DEFINE log == CommitLog(r, scored)
  <2>1. /\ log \in Log /\ log.request = r /\ log.decision = CommitOf(r, scored)
        /\ log.verdict = "none"
    BY <1>a, CommitTypes DEF Log, CommitLog
  <2>2. /\ Said' = Said \cup {log}
        /\ \A c \in Command : (RefusalCredited(c)' <=> RefusalCredited(c))
                           /\ (FeedbackCredited(c)' <=> FeedbackCredited(c))
    BY <1>3, <2>1, SayingLog DEF Decide, RecordDecision
  <2>3. (\A c \in DOMAIN issued : issued[c].request # r) /\ \A other \in Said : other.request # r
    BY <1>0, <1>3, NoCommandYet, UndecidedIsUnsaid DEF Decide
  <2>4. r \notin DOMAIN suspended
    BY <2>3 DEF IInv, SuspendedIsDecided
  <2>5. log.decision # "FAIL" => ~ProcessAuthorityViolation(Profile[r])
    BY <2>1 DEF CommitOf
  <2>6. log.decision = "ASSERT" => ~ExecutionPolicyViolation(Profile[r])
    BY <2>1 DEF CommitOf
  <2>7. \/ /\ log.decision = "ASSERT" /\ UNCHANGED suspended
           /\ \E c \in Command : Emit(c, log)
        \/ /\ log.decision = "SUSPEND" /\ suspended' = Put(suspended, r, TRUE)
           /\ UNCHANGED <<inflight, issued>>
        \/ UNCHANGED <<suspended, inflight, issued>>
    BY <1>3 DEF Decide, CommitLog
  <2> HIDE DEF log
  <2>8. ASSUME NEW c \in Command, log.decision = "ASSERT", UNCHANGED suspended, Emit(c, log)
        PROVE  Goal
    <3>1. Rest
      BY <2>1, <2>2, <2>3, <2>4, <2>5, <2>6, <2>8, EmittingStep
    <3>2. DOMAIN issued \subseteq DOMAIN issued' /\ DOMAIN inflight' = DOMAIN inflight \cup {c}
          /\ c \notin DOMAIN issued
      BY <1>0, <2>1, <2>8, EmitFacts DEF IInv
    <3> QED BY <1>a, <2>2, <3>1, <3>2, NoEndStep
  <2>9. CASE log.decision = "SUSPEND" /\ suspended' = Put(suspended, r, TRUE)
             /\ UNCHANGED <<inflight, issued>>
    <3>1. Rest
      BY <1>a, <2>1, <2>2, <2>3, <2>5, <2>9, SuspendingStep
    <3> QED BY <1>a, <2>2, <2>9, <3>1, NoEndStep
  <2>10. CASE UNCHANGED <<suspended, inflight, issued>>
    <3>1. Rest
      BY <1>a, <2>1, <2>2, <2>3, <2>4, <2>10, SayingStep
    <3> QED BY <1>a, <2>2, <2>10, <3>1, NoEndStep
  <2> QED BY <2>7, <2>8, <2>9, <2>10
<1>4. ASSUME NEW r \in AnyRequest, NEW v \in ResumeVerdict, ResumeDenied(r, v) PROVE Goal
  <2> DEFINE log == DeniedLog(r, v)
  <2>1. log \in Log /\ log.request = r /\ log.decision = "SUSPEND"
    BY DEF Log, CommitDecision, DeniedLog
  <2>2. /\ Said' = Said \cup {log}
        /\ \A c \in Command : (RefusalCredited(c)' <=> RefusalCredited(c))
                           /\ (FeedbackCredited(c)' <=> FeedbackCredited(c))
    BY <1>4, <2>1, SayingEntry DEF ResumeDenied, Append1
  <2>3. r \in DOMAIN suspended /\ UNCHANGED <<suspended, inflight, issued>>
    BY <1>4 DEF ResumeDenied
  <2>4. \A c \in DOMAIN issued : issued[c].request # r
    BY <2>3, NoCommandYet
  <2> HIDE DEF log
  <2>5. Rest
    BY <2>1, <2>2, <2>3, <2>4, SayingStep
  <2> QED BY <1>a, <2>2, <2>3, <2>5, NoEndStep
<1>5. ASSUME NEW r \in AnyRequest, NEW v \in ResumeVerdict, Resume(r, v) PROVE Goal
  <2> DEFINE log == LiftedLog(r, v)
  <2>1. /\ log \in Log /\ log.request = r /\ log.verdict = v
        /\ v = "approve" => log.decision = "ASSERT"
    BY CommitTypes DEF Log, Lifted, LiftedLog
  <2>2. /\ Said' = Said \cup {log}
        /\ \A c \in Command : (RefusalCredited(c)' <=> RefusalCredited(c))
                           /\ (FeedbackCredited(c)' <=> FeedbackCredited(c))
    BY <1>5, <2>1, SayingLog DEF Resume, RecordDecision
  <2>3. r \in DOMAIN suspended /\ suspended[r] /\ suspended' = Drop(suspended, r)
    BY <1>5 DEF Resume, MayResume
  <2>4. /\ r \in Request /\ ~ProcessAuthorityViolation(Profile[r])
        /\ \A other \in Said : other.request = r => other.decision = "SUSPEND"
    BY <2>3 DEF IInv, SuspendedIsDecided, AuthorityIsChecked
  <2>5. \A c \in DOMAIN issued : issued[c].request # r
    BY <2>3, NoCommandYet
  <2>6. /\ DOMAIN suspended' = DOMAIN suspended \ {r}
        /\ \A q \in DOMAIN suspended' : suspended'[q] = suspended[q]
    BY <2>3, LiftFacts
  <2>7. \/ v = "approve" /\ \E c \in Command : Emit(c, log)
        \/ UNCHANGED <<inflight, issued>>
    BY <1>5 DEF Resume
  <2> HIDE DEF log
  <2>8. ASSUME NEW c \in Command, v = "approve", Emit(c, log) PROVE Goal
    <3>1. Rest
      BY <2>1, <2>2, <2>4, <2>5, <2>6, <2>8, EmittingStep
    <3>2. DOMAIN issued \subseteq DOMAIN issued' /\ DOMAIN inflight' = DOMAIN inflight \cup {c}
          /\ c \notin DOMAIN issued
      BY <1>0, <2>1, <2>8, EmitFacts DEF IInv
    <3> QED BY <1>a, <2>2, <3>1, <3>2, NoEndStep
  <2>9. CASE UNCHANGED <<inflight, issued>>
    <3>1. Rest
      BY <2>1, <2>2, <2>5, <2>6, <2>9, SayingStep
    <3> QED BY <1>a, <2>2, <2>9, <3>1, NoEndStep
  <2> QED BY <2>7, <2>8, <2>9
<1>6. ASSUME NEW c \in Command, NEW d \in GateDecision, OnApprovalEvaluation(c, d) PROVE Goal
  <2>1. /\ audit' = audit \cup {GateEntry(c, d)}
        /\ UNCHANGED <<inflight, suspended, issued>>
    BY <1>6 DEF OnApprovalEvaluation, Append1
  <2>2. Said' = Said
    BY <2>1, SayingNothing DEF GateEntry
  <2>3. \A b \in Command : (RefusalCredited(b)' <=> RefusalCredited(b))
                        /\ (FeedbackCredited(b)' <=> FeedbackCredited(b))
    BY <2>1 DEF RefusalCredited, FeedbackCredited, GateEntry, LifecycleEntry, FeedbackEntry
  <2> QED BY <1>a, <2>1, <2>2, <2>3, ReportingStep, NoEndStep
<1>7. ASSUME NEW c \in Command, NEW p \in Phase, OnCommandLifecycle(c, p) PROVE Goal
  <2> DEFINE k == c \in DOMAIN inflight
             ends == p \in {"approval_rejected", "approval_cancelled"}
  <2>1. /\ audit' = audit \cup {LifecycleEntry(c, p, k)}
        /\ UNCHANGED <<suspended, issued>>
        /\ inflight' = IF ends THEN Drop(inflight, c) ELSE inflight
    BY <1>7 DEF OnCommandLifecycle, Append1
  <2>2. Said' = Said
    BY <2>1, SayingNothing DEF LifecycleEntry
  <2>3. Rest
    <3>1. DOMAIN inflight' \subseteq DOMAIN inflight
          /\ \A d \in DOMAIN inflight' : inflight'[d] = inflight[d]
      BY <2>1 DEF Drop
    <3> QED BY <2>1, <2>2, <3>1, ReportingStep
  <2>4. \A d \in Command : FeedbackCredited(d)' <=> FeedbackCredited(d)
    BY <2>1 DEF FeedbackCredited, LifecycleEntry, FeedbackEntry
  <2>5. \A d \in Command : RefusalCredited(d)' <=> RefusalCredited(d) \/ (ends /\ d = c /\ k)
    BY <2>1 DEF RefusalCredited, LifecycleEntry
  <2>6. CASE ends
    <3>1. inflight' = Drop(inflight, c)
      BY <2>1, <2>6
    <3> QED BY <2>1, <2>3, <2>4, <2>5, <2>6, <3>1, EndStep
  <2>7. CASE ~ends
    BY <1>a, <2>1, <2>3, <2>4, <2>5, <2>7, NoEndStep
  <2> QED BY <2>6, <2>7
<1>8. ASSUME NEW c \in Command, OnFeedback(c) PROVE Goal
  <2> DEFINE k == c \in DOMAIN inflight
  <2>1. /\ audit' = audit \cup {FeedbackEntry(c, k)}
        /\ UNCHANGED <<suspended, issued>>
        /\ inflight' = Drop(inflight, c)
    BY <1>8 DEF OnFeedback, Append1
  <2>2. Said' = Said
    BY <2>1, SayingNothing DEF FeedbackEntry
  <2>3. Rest
    <3>1. DOMAIN inflight' \subseteq DOMAIN inflight
          /\ \A d \in DOMAIN inflight' : inflight'[d] = inflight[d]
      BY <2>1 DEF Drop
    <3> QED BY <2>1, <2>2, <3>1, ReportingStep
  <2>4. \A d \in Command : RefusalCredited(d)' <=> RefusalCredited(d)
    BY <2>1 DEF RefusalCredited, LifecycleEntry, FeedbackEntry
  <2>5. \A d \in Command : FeedbackCredited(d)' <=> FeedbackCredited(d) \/ (d = c /\ k)
    BY <2>1 DEF FeedbackCredited, FeedbackEntry
  <2>6. EndIsFinal'
    BY <2>1, <2>4, <2>5, EndStep
  <2> QED BY <2>3, <2>6
<1>9. ASSUME LoseHealth \/ UNCHANGED vars PROVE Goal
  <2>1. UNCHANGED <<inflight, suspended, issued, audit>>
    BY <1>9 DEF LoseHealth, vars
  <2>2. Said' = Said
    BY <2>1 DEF Said
  <2>3. \A c \in Command : (RefusalCredited(c)' <=> RefusalCredited(c))
                        /\ (FeedbackCredited(c)' <=> FeedbackCredited(c))
    BY <2>1 DEF RefusalCredited, FeedbackCredited
  <2>4. Rest
    BY <2>1, <2>2, ReportingStep
  <2> QED BY <1>a, <2>1, <2>3, <2>4, NoEndStep
<1>10. ASSUME ThrowingNext PROVE Goal
  <2>1. UNCHANGED <<inflight, suspended, issued, audit>>
    BY <1>0, <1>10, ThrowingTypes
  <2>2. Said' = Said
    BY <2>1 DEF Said
  <2>3. \A c \in Command : (RefusalCredited(c)' <=> RefusalCredited(c))
                        /\ (FeedbackCredited(c)' <=> FeedbackCredited(c))
    BY <2>1 DEF RefusalCredited, FeedbackCredited
  <2>4. Rest
    BY <2>1, <2>2, ReportingStep
  <2> QED BY <1>a, <2>1, <2>3, <2>4, NoEndStep
<1> HIDE DEF Goal
<1>11. Goal
  BY <1>1, <1>2, <1>3, <1>4, <1>5, <1>6, <1>7, <1>8, <1>9, <1>10, ReportThrowsFacts
  DEF Next, ThrowingNext
<1> QED BY <1>0, <1>11 DEF IInv, Goal

-----------------------------------------------------------------------------
(* What the invariant says of the reachable states.                         *)

(* The invariant is one of the specification.                               *)
THEOREM Invariance == Spec => []IInv
BY InvariantInit, InvariantStep, PTL DEF Spec

(* What calls that threw have said, and of which requests: of one that has a
   command only if a human approved it since.                               *)
LostIsOverruled ==
  \A c \in DOMAIN issued :
    issued[c].verdict = "approve" \/ \A log \in Lost : log.request # issued[c].request

LEMMA LostStep == IInv /\ LostIsOverruled /\ [Next]_vars => LostIsOverruled'
<1> SUFFICES ASSUME IInv, LostIsOverruled, [Next]_vars PROVE LostIsOverruled'
  OBVIOUS
<1>0. TypeFlat /\ InflightIsIssued
  BY TypeFlatIsTypeOK DEF IInv
<1>1. ASSUME UNCHANGED <<issued, dangling>> PROVE LostIsOverruled'
  BY <1>1 DEF LostIsOverruled, Lost
<1>2. ASSUME NEW c \in Command, NEW log \in Log, Emit(c, log), UNCHANGED dangling,
             log.verdict = "approve" \/ \A other \in Lost : other.request # log.request
      PROVE  LostIsOverruled'
  <2>1. /\ DOMAIN issued' = DOMAIN issued \cup {c} /\ issued'[c] = log
        /\ \A d \in DOMAIN issued : issued'[d] = issued[d]
    BY <1>0, <1>2, EmitFacts
  <2> QED BY <1>2, <2>1 DEF LostIsOverruled, Lost
<1>3. ASSUME NEW r \in Request, NEW scored \in CommitDecision, Decide(r, scored)
      PROVE  LostIsOverruled'
  <2>1. CommitLog(r, scored) \in Log /\ CommitLog(r, scored).request = r
    BY CommitTypes DEF CommitLog, Log, AnyRequest
  <2>2. \A other \in Lost : other.request # r
    BY <1>3 DEF Decide, Decided, Chain, Lost, DecisionEntry
  <2>3. UNCHANGED dangling
    BY <1>3 DEF Decide, RecordDecision
  <2>4. UNCHANGED issued \/ \E c \in Command : Emit(c, CommitLog(r, scored))
    BY <1>3 DEF Decide
  <2> QED BY <1>1, <1>2, <2>1, <2>2, <2>3, <2>4
<1>4. ASSUME NEW r \in AnyRequest, NEW v \in ResumeVerdict, Resume(r, v) PROVE LostIsOverruled'
  <2>1. LiftedLog(r, v) \in Log /\ LiftedLog(r, v).verdict = v
    BY CommitTypes DEF LiftedLog, Log
  <2>2. UNCHANGED dangling
    BY <1>4 DEF Resume, RecordDecision
  <2>3. UNCHANGED issued \/ (v = "approve" /\ \E c \in Command : Emit(c, LiftedLog(r, v)))
    BY <1>4 DEF Resume
  <2> QED BY <1>1, <1>2, <2>1, <2>2, <2>3
<1>5. ASSUME NEW r \in AnyRequest, ThrowsDeciding(r),
             \A c \in DOMAIN issued : issued[c].request # r
      PROVE  LostIsOverruled'
  <2>1. PICK log \in Log, captured \in BOOLEAN :
          log.request = r /\ Throws(DecisionRecords(log, captured))
    BY <1>5 DEF ThrowsDeciding
  <2>2. \A other \in Lost' : other \in Lost \/ other.request = r
    BY <2>1 DEF Throws, Dangle, Lost, DecisionRecords, DecisionEntry, MemoryEntry
  <2> QED BY <1>5, <2>1, <2>2 DEF LostIsOverruled, Throws
<1>6. ASSUME ThrowingNext PROVE LostIsOverruled'
  <2>1. ASSUME ThrowsReporting PROVE LostIsOverruled'
    <3>1. UNCHANGED issued /\ Lost' = Lost
      BY <2>1 DEF ThrowsReporting, Throws, Dangle, Lost, DecisionEntry
    <3> QED BY <3>1 DEF LostIsOverruled
  <2>2. ASSUME NEW r \in AnyRequest, DecideThrows(r) PROVE LostIsOverruled'
    BY <1>5, <2>2, DecideThrowsFacts, NoCommandYet
  <2>3. ASSUME NEW r \in AnyRequest, NEW v \in ResumeVerdict, ResumeThrows(r, v)
        PROVE  LostIsOverruled'
    BY <1>5, <2>3, ResumeThrowsFacts, NoCommandYet
  <2> QED BY <1>6, <2>1, <2>2, <2>3 DEF ThrowingNext
<1>7. ASSUME NEW c \in Command,
             \/ \E d \in GateDecision : OnApprovalEvaluation(c, d)
             \/ \E p \in Phase : OnCommandLifecycle(c, p)
             \/ OnFeedback(c)
      PROVE  LostIsOverruled'
  BY <1>1, <1>7 DEF OnApprovalEvaluation, OnCommandLifecycle, OnFeedback, Append1
<1>8. ASSUME RejectMalformed \/ (\E r \in Request : HaltFailSafe(r)) \/ LoseHealth \/ UNCHANGED vars
      PROVE  LostIsOverruled'
  BY <1>1, <1>8 DEF RejectMalformed, HaltFailSafe, LoseHealth, Append1, vars
<1>9. ASSUME NEW r \in AnyRequest, NEW v \in ResumeVerdict, ResumeDenied(r, v)
      PROVE  LostIsOverruled'
  BY <1>1, <1>9 DEF ResumeDenied, Append1
<1> QED
  BY <1>3, <1>4, <1>6, <1>7, <1>8, <1>9, ReportThrowsFacts DEF Next, ThrowingNext

(* What a call that threw has said of a request stands beside no command but
   one a human approved (controller.ts: decide, resume; audit.ts: append).  *)
THEOREM LostVerdicts == Spec => []LostIsOverruled
<1>1. Init => LostIsOverruled
  BY DEF Init, LostIsOverruled
<1> QED BY <1>1, LostStep, Invariance, PTL DEF Spec

(* Every command in flight stands on a recorded ASSERT of a request that no
   longer waits for a human.                                                *)
THEOREM InflightAsserted == Spec => []InflightIsAsserted
<1>1. IInv => InflightIsAsserted
  <2> SUFFICES ASSUME IInv, NEW c \in DOMAIN inflight
               PROVE  /\ c \in DOMAIN issued /\ issued[c] = inflight[c]
                      /\ inflight[c].decision = "ASSERT"
                      /\ DecisionEntry(inflight[c]) \in audit
                      /\ inflight[c].request \notin DOMAIN suspended
    BY DEF InflightIsAsserted
  <2>1. c \in DOMAIN issued /\ issued[c] = inflight[c]
    BY DEF IInv, InflightIsIssued
  <2>2. issued[c] \in Said /\ issued[c].decision = "ASSERT"
        /\ issued[c].request \notin DOMAIN suspended
    BY <2>1 DEF IInv, IssuedIsDecided
  <2> QED BY <2>1, <2>2 DEF Said
<1> QED BY <1>1, Invariance, PTL

(* A request that was ever suspended has a command only by a human approval. *)
THEOREM HumansLiftSuspensions == Spec => []SuspendLiftedByHumanOnly
<1>1. IInv /\ LostIsOverruled => SuspendLiftedByHumanOnly
  <2> SUFFICES ASSUME IInv, LostIsOverruled,
                      NEW c \in DOMAIN issued, NEW e \in Chain, e.kind = "decision",
                      e.log.request = issued[c].request, e.log.decision = "SUSPEND"
               PROVE  issued[c].verdict = "approve"
    BY DEF SuspendLiftedByHumanOnly
  <2>1. e.log \in Said \cup Lost
    BY TypeFlatIsTypeOK, SaidOfRecord DEF IInv
  <2> QED BY <2>1 DEF IInv, IssuedIsDecided, LostIsOverruled
<1> QED BY <1>1, Invariance, LostVerdicts, PTL

(* A request has at most one command.                                       *)
THEOREM AtMostOneCommand == Spec => []OneCommandPerRequest
<1>1. IInv => OneCommandPerRequest
  BY DEF IInv
<1> QED BY <1>1, Invariance, PTL

(* A request has no command after a refusal by a call that returned; one whose
   call threw out of its append is overruled by a human's verdict only
   (controller.ts: decide, resume).                                         *)
THEOREM RefusedIsFinal == Spec => []RefusedHasNoCommand
<1>1. IInv /\ LostIsOverruled => RefusedHasNoCommand
  <2> SUFFICES ASSUME IInv, LostIsOverruled,
                      NEW c \in DOMAIN issued, NEW e \in Chain, e.kind = "decision",
                      e.log.request = issued[c].request
               PROVE  \/ e.log.decision \in {"ASSERT", "SUSPEND"}
                      \/ e \notin audit /\ issued[c].verdict = "approve"
    BY DEF RefusedHasNoCommand
  <2>1. e \in audit => e.log \in Said
    BY TypeFlatIsTypeOK, SaidOfRecord DEF IInv
  <2>2. e \notin audit => e.log \in Lost
    BY TypeFlatIsTypeOK, SaidOfRecord DEF IInv
  <2> QED BY <2>1, <2>2 DEF IInv, IssuedIsDecided, LostIsOverruled
<1> QED BY <1>1, Invariance, LostVerdicts, PTL

(* Every command has the authority of its process, human approval or not.   *)
THEOREM AuthorityHolds == Spec => []CommandsHaveProcessAuthority
<1>1. IInv => CommandsHaveProcessAuthority
  BY DEF IInv, AuthorityIsChecked, CommandsHaveProcessAuthority
<1> QED BY <1>1, Invariance, PTL

(* Every command no human approved obeys the execution policy.              *)
THEOREM DirectPolicyHolds == Spec => []DirectCommandsObeyPolicy
<1>1. IInv => DirectCommandsObeyPolicy
  BY DEF IInv
<1> QED BY <1>1, Invariance, PTL

(* The five together: every command rests on the decision it names.         *)
THEOREM CommandsRest == Spec => []CommandsRestOnDecisions
<1>1. /\ InflightIsAsserted /\ OneCommandPerRequest /\ RefusedHasNoCommand
      /\ CommandsHaveProcessAuthority /\ DirectCommandsObeyPolicy
      => CommandsRestOnDecisions
  BY DEF CommandsRestOnDecisions
<1> QED
  BY <1>1, InflightAsserted, AtMostOneCommand, RefusedIsFinal, AuthorityHolds,
     DirectPolicyHolds, PTL

(* Calls that returned credit a command with at most one end, and with none
   while it is in flight (controller.ts: onCommandLifecycle, onFeedback).   *)
THEOREM EndsAreFinal == Spec => []OneAttributedEnd
<1>1. IInv => OneAttributedEnd
  BY DEF IInv, EndIsFinal, OneAttributedEnd, RefusalCredited, FeedbackCredited
<1> QED BY <1>1, Invariance, PTL

-----------------------------------------------------------------------------
(* Action properties.                                                       *)

(* What the fail-safe filed stays filed, and no command is built once health
   is lost.                                                                 *)
THEOREM FailSafe == Spec => FailSafeHolds
<1> DEFINE Held == /\ \A r \in DOMAIN suspended :
                        ~suspended[r] => r \in DOMAIN suspended' /\ ~suspended'[r]
                   /\ ~healthy => issued' = issued
<1>1. IInv /\ [Next]_vars => Held
  <2> SUFFICES ASSUME IInv, [Next]_vars PROVE Held
    OBVIOUS
  <2>1. CASE RejectMalformed
    BY <2>1 DEF RejectMalformed, Put
  <2>2. ASSUME NEW r \in Request, HaltFailSafe(r) PROVE Held
    BY <2>2 DEF HaltFailSafe, Put
  <2>3. ASSUME NEW r \in Request, NEW scored \in CommitDecision, Decide(r, scored) PROVE Held
    <3>1. r \notin DOMAIN suspended /\ healthy
      <4>1. \A log \in Said : log.request # r
        BY <2>3, TypeFlatIsTypeOK, UndecidedIsUnsaid DEF Decide, IInv
      <4> QED BY <2>3, <4>1 DEF Decide, IInv, SuspendedIsDecided
    <3>2. suspended' = suspended \/ suspended' = Put(suspended, r, TRUE)
      BY <2>3 DEF Decide
    <3> QED BY <3>1, <3>2 DEF Put
  <2>4. ASSUME NEW r \in AnyRequest, NEW v \in ResumeVerdict, ResumeDenied(r, v) PROVE Held
    BY <2>4 DEF ResumeDenied
  <2>5. ASSUME NEW r \in AnyRequest, NEW v \in ResumeVerdict, Resume(r, v) PROVE Held
    <3>1. suspended[r] /\ healthy /\ suspended' = Drop(suspended, r)
      BY <2>5 DEF Resume, MayResume
    <3> QED BY <3>1 DEF Drop
  <2>6. ASSUME NEW c \in Command, NEW d \in GateDecision, OnApprovalEvaluation(c, d) PROVE Held
    BY <2>6 DEF OnApprovalEvaluation
  <2>7. ASSUME NEW c \in Command, NEW p \in Phase, OnCommandLifecycle(c, p) PROVE Held
    BY <2>7 DEF OnCommandLifecycle
  <2>8. ASSUME NEW c \in Command, OnFeedback(c) PROVE Held
    BY <2>8 DEF OnFeedback
  <2>9. CASE LoseHealth \/ UNCHANGED vars
    BY <2>9 DEF LoseHealth, vars
  <2>10. CASE ThrowingNext
    BY <2>10, TypeFlatIsTypeOK, ThrowingTypes DEF IInv
  <2> QED
    BY <2>1, <2>2, <2>3, <2>4, <2>5, <2>6, <2>7, <2>8, <2>9, <2>10, ReportThrowsFacts
    DEF Next, ThrowingNext
<1> QED BY <1>1, Invariance, PTL DEF Spec, FailSafeHolds

(* A suspension ends in the step that records a human verdict on it.        *)
THEOREM VerdictsEndSuspensions == Spec => SuspensionEndsByVerdict
<1> DEFINE Verdict(r, v) == [request |-> r, decision |-> Lifted(v), verdict |-> v]
           Ended(r) == \E v \in ResumeVerdict : DecisionEntry(Verdict(r, v)) \in audit' \ audit
           Judged == \A r \in DOMAIN suspended \ DOMAIN suspended' : Ended(r)
<1>1. IInv /\ [Next]_vars => Judged
  <2> SUFFICES ASSUME IInv, [Next]_vars PROVE Judged
    OBVIOUS
  <2>1. CASE RejectMalformed \/ \E r \in Request : HaltFailSafe(r)
    BY <2>1 DEF RejectMalformed, HaltFailSafe, Put
  <2>2. ASSUME NEW r \in Request, NEW scored \in CommitDecision, Decide(r, scored) PROVE Judged
    BY <2>2 DEF Decide, Put
  <2>3. ASSUME NEW r \in AnyRequest, NEW v \in ResumeVerdict, Resume(r, v) PROVE Judged
    <3>1. Verdict(r, v) \in Log /\ Verdict(r, v).request = r
          /\ Verdict(r, v).decision # "SUSPEND"
      BY CommitTypes DEF Log, Lifted, LiftedLog
    <3>2. DecisionEntry(Verdict(r, v)) \in audit'
      BY <2>3 DEF Resume, RecordDecision, DecisionRecords, LiftedLog
    <3>3. DecisionEntry(Verdict(r, v)) \notin audit
      <4>1. r \in DOMAIN suspended /\ suspended[r]
        BY <2>3 DEF Resume, MayResume
      <4>2. \A log \in Said : log.request = r => log.decision = "SUSPEND"
        BY <4>1 DEF IInv, SuspendedIsDecided
      <4> QED BY <3>1, <4>2 DEF Said
    <3>4. Ended(r)
      BY <3>2, <3>3
    <3>5. DOMAIN suspended' = DOMAIN suspended \ {r}
      BY <2>3 DEF Resume, Drop
    <3> QED BY <3>4, <3>5
  <2>4. CASE UNCHANGED suspended
    BY <2>4
  <2>5. \/ RejectMalformed \/ \E r \in Request : HaltFailSafe(r)
        \/ \E r \in Request, scored \in CommitDecision : Decide(r, scored)
        \/ \E r \in AnyRequest, v \in ResumeVerdict : Resume(r, v)
        \/ UNCHANGED suspended
    <3>1. ThrowingNext => UNCHANGED suspended
      BY TypeFlatIsTypeOK, ThrowingTypes DEF IInv
    <3> QED
      BY <3>1, ReportThrowsFacts
      DEF Next, ThrowingNext, vars, ResumeDenied, OnApprovalEvaluation, OnCommandLifecycle,
          OnFeedback, LoseHealth
  <2> QED BY <2>1, <2>2, <2>3, <2>4, <2>5
<1> QED BY <1>1, Invariance, PTL DEF Spec, SuspensionEndsByVerdict
=============================================================================
