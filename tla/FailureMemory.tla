--------------------------- MODULE FailureMemory ---------------------------
(***************************************************************************)
(* The failure memory of HDS-BRAIN: rules made of failures, of proposals   *)
(* of an LLM and by callers, the gate they form in front of the executor,  *)
(* and the snapshot file every change rewrites.                            *)
(*                                                                         *)
(* The patterns of a rule and of a command are abstracted to how alike     *)
(* they are: 0 exactly, 1 normalized, 2 in structure, 3 in their words.    *)
(* Confidence is in hundredths.  What separates scopes and failure types   *)
(* for the policies is the sort of a failure.                              *)
(***************************************************************************)
EXTENDS Integers, FiniteSetsExt

CONSTANTS
  Rule,        \* what randomUUID() hands out
  Key,         \* the failures the store tells apart (equivalentKey)
  Event,       \* the events failures are extracted from, of Extracted
  CallerRule,  \* the inputs of other callers of addSignature()
  CutWrite,    \* a file that is neither empty nor JSON
  MaxFaults    \* bound on the writes that fail

VARIABLES
  rules,       \* id -> signature
  aged,        \* ids whose last_seen_at is older than their TTL
  snapshot,    \* the file: the signatures, or CutWrite; empty: <<>>
  loaded,      \* has the constructor returned, and the process not died since?
  returned,    \* ids of the calls that returned
  emptied,     \* was a write cut off just after it truncated the file?
  faults,      \* writes that failed
  ruledOn      \* ids that markState or a manual review put into force

failureVars == <<rules, aged, snapshot, loaded, returned, emptied, faults, ruledOn>>

Severity  == {"low", "medium", "high", "critical"}
Weight    == [low |-> 0, medium |-> 1, high |-> 2, critical |-> 3]
RuleState == {"draft", "active", "shadow", "probation", "retired"}
Policy    == {"warn", "downrank", "rewrite", "require_approval", "block"}
Strength  == [allow |-> 0, warn |-> 1, downrank |-> 2, rewrite |-> 3,
              require_approval |-> 4, block |-> 5]
Probe     == {"manual", "sandbox", "shadow_only", "never"}
Alike     == 0 .. 3

Capped(c) == IF c < 0 THEN 0 ELSE IF c > 100 THEN 100 ELSE c
Stronger(s, t) == IF Weight[t] > Weight[s] THEN t ELSE s

-----------------------------------------------------------------------------
(* Where rules come from.                                                   *)

Failure(sort, severity, confidence, level) ==
  [sort |-> sort, severity |-> severity, confidence |-> confidence, level |-> level]

(* extractFailureSignatures, by what it is given: a failed command, whose
   error classifyFailure reads; a decision; a verdict; an audited output.   *)
Extracted ==
  [boundary_error    |-> Failure("safety",   "critical", 65, 1),
   permission_error  |-> Failure("other",    "high",     65, 1),
   environment_error |-> Failure("testable", "medium",   65, 1),
   bad_command       |-> Failure("other",    "medium",   65, 1),
   boundary_decision |-> Failure("safety",   "critical", 95, 1),
   failed_decision   |-> Failure("safety",   "high",     80, 2),
   denied_approval   |-> Failure("other",    "high",     65, 1),
   held_output       |-> Failure("llm",      "medium",   65, 3)]

DefaultSuppressionPolicy(f) ==
  LET safety == f.sort = "safety"
      least(level, c) == f.level <= level /\ f.confidence >= c
  IN CASE f.level = 3 -> IF f.confidence >= 75 THEN "downrank" ELSE "warn"
       [] f.level < 3 /\ f.severity = "critical" ->
            IF least(0, 90) THEN "block"
            ELSE IF safety \/ least(1, 80) THEN "require_approval" ELSE "warn"
       [] f.level < 3 /\ f.severity = "high" ->
            IF least(0, 85) /\ safety THEN "block"
            ELSE IF \/ least(0, 85)
                    \/ f.level = 1 /\ f.confidence >= 75
                    \/ f.level = 2 /\ safety /\ f.confidence >= 85
                 THEN "require_approval" ELSE "warn"
       [] f.level < 3 /\ f.severity = "medium" ->
            IF least(1, 70) THEN "downrank" ELSE "warn"
       [] OTHER -> "warn"

DefaultProbePolicy(f, policy) ==
  CASE f.severity = "critical" \/ f.sort = "safety" ->
         IF policy = "block" THEN "never" ELSE "manual"
    [] f.severity # "critical" /\ f.sort = "testable" -> "sandbox"
    [] f.severity # "critical" /\ f.sort = "llm" -> "shadow_only"
    [] OTHER -> IF policy = "block" THEN "sandbox" ELSE "shadow_only"

Signature(key, from, f, state, policy) ==
  [key |-> key, from |-> from, level |-> f.level, severity |-> f.severity,
   confidence |-> f.confidence, state |-> state, policy |-> policy,
   probe |-> DefaultProbePolicy(f, policy)]

Signatures ==
  [key: Key, from: {"caller", "failure", "llm"}, level: Alike, severity: Severity,
   confidence: 0 .. 100, state: RuleState, policy: Policy, probe: Probe]

ASSUME FailureAssumption ==
  /\ Event \subseteq DOMAIN Extracted /\ MaxFaults \in Nat
  /\ \A r \in CallerRule : r \in Signatures /\ r.from = "caller"

(* Defective: the policy an LLM proposes is taken.                          *)
ProposalAsProposed(key, severity, confidence, policy) ==
  Signature(key, "llm", Failure("llm", severity, confidence, 3), "draft", policy)

(* addLLMProposal: what the LLM proposes as the policy is not looked at.    *)
Proposal(key, severity, confidence, policy) ==
  LET f == Failure("llm", severity, confidence, 3)
  IN Signature(key, "llm", f, "draft", DefaultSuppressionPolicy(f))

-----------------------------------------------------------------------------
(* The gate.                                                                *)

Enforceable(state) == state \in {"active", "probation"}

PolicyAllowedForMatch(r, like) ==
  CASE like = 3 -> r.policy \in {"warn", "downrank"}
    [] like = 2 /\ r.policy = "block" -> FALSE     \* no rule carries the note it asks for
    [] like = 1 /\ r.policy = "block" ->
         r.confidence >= 90 /\ r.severity \in {"high", "critical"}
    [] OTHER -> TRUE

EffectivePolicyForState(r, like) ==
  IF ~PolicyAllowedForMatch(r, like)
  THEN IF like = 3 THEN "warn" ELSE "require_approval"
  ELSE IF r.state = "probation" /\ r.policy = "block" /\ r.severity # "critical"
       THEN "warn"
       ELSE r.policy

(* What a rule says of a command that is alike to this degree (matchSignature,
   evaluateGate).                                                           *)
Says(r, like) ==
  IF like <= r.level /\ Enforceable(r.state) THEN EffectivePolicyForState(r, like)
  ELSE "allow"

(* evaluateGate of a command that is alike to the rules in likeness.        *)
EvaluateGate(likeness) ==
  LET said == {Says(rules[id], likeness[id]) : id \in DOMAIN likeness}
  IN CHOOSE d \in said \cup {"allow"} : \A e \in said : Strength[e] <= Strength[d]

-----------------------------------------------------------------------------
(* The file: persist() rewrites all of it in place, after the change.       *)

FailureInit ==
  /\ rules = << >> /\ aged = {} /\ snapshot = << >>
  /\ loaded = TRUE /\ returned = {} /\ emptied = FALSE /\ faults = 0 /\ ruledOn = {}

(* The change is in memory; the write succeeds and the call returns, or it
   throws and leaves what it had written.                                   *)
Persist(id, changed) ==
  /\ rules' = changed
  /\ \/ /\ snapshot' = changed
        /\ returned' = returned \cup {id}
        /\ emptied' = FALSE
        /\ UNCHANGED faults
     \/ /\ faults < MaxFaults
        /\ faults' = faults + 1
        /\ snapshot' \in {snapshot, << >>, CutWrite, changed}
        /\ emptied' = IF snapshot' = << >> THEN snapshot # << >> \/ emptied ELSE FALSE
        /\ UNCHANGED returned
  /\ UNCHANGED loaded

PutRule(id, r) == [i \in DOMAIN rules \cup {id} |-> IF i = id THEN r ELSE rules[i]]

AddSignature(r) ==
  \E id \in Rule \ DOMAIN rules :
    /\ loaded
    /\ Persist(id, PutRule(id, r))
    /\ UNCHANGED <<aged, ruledOn>>

AddLLMProposal(key) ==
  \E severity \in {"medium", "critical"}, c \in {45, 100}, policy \in Policy :
    AddSignature(Proposal(key, severity, c, policy))

SeenAgain(r, f) ==
  [r EXCEPT !.confidence = Max({@, f.confidence}), !.severity = Stronger(@, f.severity)]

(* executeAndEcho hands in what it extracts from a failed command.          *)
UpsertSignature(key, event) ==
  LET f  == Extracted[event]
      is == {id \in DOMAIN rules : rules[id].key = key}
  IN \/ is = {} /\ AddSignature(Signature(key, "failure", f, "shadow", DefaultSuppressionPolicy(f)))
     \/ /\ loaded
        /\ \E id \in is :
             /\ Persist(id, PutRule(id, SeenAgain(rules[id], f)))
             /\ aged' = aged \ {id}
        /\ UNCHANGED ruledOn

MarkState(id, state) ==
  /\ loaded
  /\ Persist(id, PutRule(id, [rules[id] EXCEPT !.state = state]))
  /\ ruledOn' = IF Enforceable(state) THEN ruledOn \cup {id} ELSE ruledOn
  /\ UNCHANGED aged

UpdateHitCount(id) ==
  /\ loaded
  /\ Persist(id, rules)
  /\ aged' = aged \ {id}
  /\ UNCHANGED ruledOn

(* Days go by.  A critical rule has no TTL.                                 *)
GrowOld ==
  /\ loaded
  /\ aged' = {id \in DOMAIN rules : rules[id].severity # "critical"}
  /\ aged' # aged
  /\ UNCHANGED <<rules, snapshot, loaded, returned, emptied, faults, ruledOn>>

DecayRate == [critical |-> 0, high |-> 5, medium |-> 10, low |-> 20]

Decays(id) ==
  /\ rules[id].severity # "critical" /\ rules[id].state # "retired"
  /\ id \in aged

(* One round of decayOldRules.  Whatever its state was, a rule that nobody
   is confident in any more is on probation.                                *)
DecayOldRules(id) ==
  LET c == Capped(rules[id].confidence - DecayRate[rules[id].severity])
  IN /\ loaded /\ Decays(id)
     /\ Persist(id, PutRule(id, [rules[id] EXCEPT !.confidence = c,
                                   !.state = IF c < 30 THEN "probation" ELSE @]))
     /\ UNCHANGED <<aged, ruledOn>>

(* A rule that is never probed is returned as it is.                        *)
ApplyRevalidation(id, outcome) ==
  LET r == rules[id]
      next ==
        CASE outcome = "still_valid" -> [r EXCEPT !.confidence = Capped(@ + 5)]
          [] outcome = "false_positive" ->
               [r EXCEPT !.state = "probation", !.policy = "warn", !.confidence = Capped(@ - 30)]
          [] outcome = "no_longer_reproducible" ->
               [r EXCEPT !.state = "retired", !.policy = "warn", !.confidence = Capped(@ - 30)]
          [] outcome = "superseded" -> [r EXCEPT !.state = "retired"]
          [] outcome = "manual_review_required" -> [r EXCEPT !.state = "probation"]
  IN /\ loaded /\ r.probe # "never"
     /\ Persist(id, PutRule(id, next))
     /\ ruledOn' = IF outcome = "manual_review_required" THEN ruledOn \cup {id} ELSE ruledOn
     /\ UNCHANGED aged

(* The process is killed between two calls; Persist has the writes that are
   cut off.                                                                 *)
KillMemory ==
  /\ loaded
  /\ loaded' = FALSE
  /\ rules' = << >>
  /\ UNCHANGED <<aged, snapshot, returned, emptied, faults, ruledOn>>

(* Defective: a file that is no JSON counts as an empty one.                *)
LoadableAtAnyRate(file) == TRUE
Loadable(file) == file # CutWrite

(* The constructor, when it does not throw: an empty file holds no rules.   *)
LoadFromFile ==
  /\ ~loaded /\ Loadable(snapshot)
  /\ loaded' = TRUE
  /\ rules' = IF snapshot = CutWrite THEN << >> ELSE snapshot
  /\ aged' = aged \cap DOMAIN rules'
  /\ returned' = IF emptied THEN {} ELSE returned
  /\ ruledOn' = ruledOn \cap DOMAIN rules'
  /\ UNCHANGED <<snapshot, emptied, faults>>

Outcome == {"still_valid", "no_longer_reproducible", "false_positive", "superseded",
            "manual_review_required"}

FailureNext ==
  \/ \E r \in CallerRule : AddSignature(r)
  \/ \E key \in Key : AddLLMProposal(key)
  \/ \E key \in Key, event \in Event : UpsertSignature(key, event)
  \/ \E id \in DOMAIN rules, state \in RuleState : MarkState(id, state)
  \/ \E id \in DOMAIN rules : UpdateHitCount(id) \/ DecayOldRules(id)
  \/ \E id \in DOMAIN rules, outcome \in Outcome : ApplyRevalidation(id, outcome)
  \/ GrowOld \/ KillMemory \/ LoadFromFile

FailureSpec == FailureInit /\ [][FailureNext]_failureVars

-----------------------------------------------------------------------------
(* Properties.                                                              *)

FailureTypeOK ==
  /\ \A id \in DOMAIN rules : rules[id] \in Signatures
  /\ DOMAIN rules \subseteq Rule /\ aged \subseteq Rule /\ returned \subseteq Rule
  /\ loaded \in BOOLEAN /\ emptied \in BOOLEAN

(* What was learned from failures or proposed by an LLM stops no command by
   itself: not by failing again and again, by decaying, by a revalidation or
   by a proposal that asks for it, but only once somebody put the rule into
   force; and words alone never stop a command, whoever wrote the rule
   (docs/hds-brain-failure-memory-control.md: Authority Boundary, Match
   Levels; upsertSignature, addLLMProposal, decayOldRules, evaluateGate).   *)
OnlyRuledOnRulesStop ==
  \A likeness \in [DOMAIN rules -> Alike] :
    EvaluateGate(likeness) \in {"require_approval", "block"} =>
      \E id \in DOMAIN rules :
        /\ likeness[id] <= Min({rules[id].level, 2})
        /\ rules[id].from = "caller" \/ id \in ruledOn

(* A failure that happens again does not loosen the rule it confirms: unless
   the rule is on probation, what it says of a command weakens only with its
   state, its policy or a fall of its confidence (upsertSignature,
   effectivePolicyForState).                                                *)
FailuresDoNotLoosen ==
  [][\A id \in DOMAIN rules \cap DOMAIN rules', like \in Alike :
       LET r == rules[id]  s == rules'[id]
       IN r.state = s.state /\ r.state # "probation" /\ r.policy = s.policy
            /\ r.confidence <= s.confidence
          => Strength[Says(r, like)] <= Strength[Says(s, like)]]_failureVars

(* A rule whose call returned is there as long as the process runs and after
   every restart, whatever writes failed since: a fragment of the file does
   not load.  The one exception is a write cut off between its truncation
   of the file and its first byte, for an empty file loads as a memory
   without rules (persist, loadFromFile).                                   *)
ReturnedRulesSurvive == loaded => returned \subseteq DOMAIN rules
=============================================================================
