-------------------------- MODULE ApprovalPolicy ---------------------------
(***************************************************************************)
(* The human-authority layer above an HDS ASSERT (approval_policy.ts): how *)
(* a command is classified (operation, risk, final review), which stored   *)
(* grant speaks for it, and whether it may run, must be asked about, or is *)
(* denied.  Pure operators; the gateway's approval runtime supplies the    *)
(* grants and the clock.                                                   *)
(*                                                                         *)
(* A command is [type, tool, caps, target, isPath]: target is what         *)
(* scopeFromCommand extracts from the arguments, and isPath says it came   *)
(* from a path or root argument.                                           *)
(***************************************************************************)
EXTENDS ToolCatalog, Sequences, FiniteSets

Operation ==
  {"noop", "llm.call", "tool.call", "tool.file.read", "tool.file.search",
   "tool.file.write", "tool.file.delete", "tool.shell.exec",
   "tool.network.http", "browser.snapshot", "browser.automation",
   "channel.send", "external.send", "settings.write", "credential.access",
   "schedule.list", "schedule.create", "schedule.update", "schedule.delete",
   "github.write", "google.write", "payment.charge", "unknown"}

Risk     == {"low", "medium", "high"}
Decision == {"allow", "ask", "deny"}
Mode     == {"ask_every_time", "remember_this_decision", "full_access"}

RiskOrder(risk) == CASE risk = "low" -> 1 [] risk = "medium" -> 2 [] risk = "high" -> 3

FinalReviewOperations ==
  {"tool.call", "tool.file.delete", "tool.shell.exec", "external.send",
   "credential.access", "settings.write", "schedule.create",
   "schedule.update", "schedule.delete", "browser.automation",
   "github.write", "google.write", "payment.charge", "unknown"}

(* What operationFromCommand falls back to when no capability decides.      *)
OperationOfType(command) ==
  CASE command.type = "llm_call"      -> "llm.call"
    [] command.type = "channel_send"  -> "channel.send"
    [] command.tool = "schedule_list"   -> "schedule.list"
    [] command.tool = "schedule_create" -> "schedule.create"
    [] command.tool = "schedule_update" -> "schedule.update"
    [] command.tool = "schedule_delete" -> "schedule.delete"
    [] command.tool = "file_search"     -> "tool.file.search"
    [] command.tool = "http_fetch"      -> "tool.network.http"
    [] command.tool = "browser_snapshot"   -> "browser.snapshot"
    [] command.tool = "browser_automation" -> "browser.automation"
    [] OTHER -> "tool.call"

(* operationFromCommand: the first capability family that matches decides.  *)
OperationOf(command) ==
  LET has(caps) == command.caps \cap caps # {}
  IN  IF command.type = "noop" THEN "noop"
      ELSE IF has({"credential:read", "credential.access", "secrets:read"})
      THEN "credential.access"
      ELSE IF has({"payment:charge", "billing:write"}) THEN "payment.charge"
      ELSE IF has({"schedule:read"})   THEN "schedule.list"
      ELSE IF has({"schedule:create"}) THEN "schedule.create"
      ELSE IF has({"schedule:update"}) THEN "schedule.update"
      ELSE IF has({"schedule:delete"}) THEN "schedule.delete"
      ELSE IF has({"tool:github.write"} \cup GithubCaps) THEN "github.write"
      ELSE IF has({"tool:gmail.write", "tool:google.calendar.write",
                   "tool:google.drive.write", "google:gmail.write",
                   "google:calendar.write", "google:drive.write"})
      THEN "google.write"
      ELSE IF has({"browser:act", "tool:browser.automation"}) THEN "browser.automation"
      ELSE IF has({"browser:snapshot", "tool:browser.snapshot"}) THEN "browser.snapshot"
      ELSE IF has(SecretsCaps \cup GoogleCaps) THEN "credential.access"
      ELSE IF has({"settings:write"}) THEN "settings.write"
      ELSE IF has({"shell:exec", "process:exec"}) THEN "tool.shell.exec"
      ELSE IF has({"fs:delete", "file:delete"}) THEN "tool.file.delete"
      ELSE IF has({"fs:write", "file:write"})   THEN "tool.file.write"
      ELSE IF has({"fs:read", "file:read"})
      THEN IF command.tool = "file_search" THEN "tool.file.search" ELSE "tool.file.read"
      ELSE IF has(NetworkCaps) THEN "tool.network.http"
      ELSE IF has({"external:send", "email:send"}) THEN "external.send"
      ELSE OperationOfType(command)

RiskOf(op, caps) ==
  IF op \in FinalReviewOperations THEN "high"
  ELSE IF \/ op \in {"tool.file.write", "tool.network.http",
                     "browser.snapshot", "channel.send"}
          \/ caps \cap NetworkCaps # {}
  THEN "medium" ELSE "low"

(* scopeFromCommand, without the spelling of the target.                    *)
ScopeOf(command, op) ==
  CASE command.type = "channel_send" -> "channel"
    [] command.type = "tool_call" /\ op = "github.write" -> "repo"
    [] /\ command.type = "tool_call" /\ command.isPath
       /\ op \notin {"github.write", "google.write",
                     "browser.snapshot", "browser.automation"}
         -> IF op \in {"tool.file.read", "tool.file.search"} THEN "folder" ELSE "file"
    [] OTHER -> "task_type"

(* approvalContextFromCommand *)
Context(command, actor) ==
  LET op == OperationOf(command)
  IN [ operation |-> op, scope |-> ScopeOf(command, op),
       target |-> command.target, risk |-> RiskOf(op, command.caps),
       actor |-> actor, caps |-> command.caps ]

FinalReviewRequired(ctx) ==
  ctx.operation \in FinalReviewOperations \/ ctx.risk = "high"

-----------------------------------------------------------------------------
(* Grants.  "*" is the wildcard, "none" an absent optional field, and       *)
(* Never the null expiry.                                                   *)

Never == "never"

Expired(grant, now) == grant.expires # Never /\ grant.expires <= now

(* Defective: whoever asks, a grant speaks for them.                        *)
GrantMatchesAnyActor(grant, ctx, now) ==
  /\ ~Expired(grant, now)
  /\ grant.operation \in {"*", ctx.operation}
  /\ grant.scope \in {"*", ctx.scope}
  /\ grant.target \in {"none", ctx.target}

(* grantMatches.  The path pattern of a remembered grant equals its target,
   and the channel of one is part of its target, so target stands for the
   three comparisons.                                                       *)
GrantMatches(grant, ctx, now) ==
  /\ ~Expired(grant, now)
  /\ grant.operation \in {"*", ctx.operation}
  /\ grant.scope \in {"*", ctx.scope}
  /\ grant.actor \in {"*", ctx.actor}
  /\ grant.risk = "*" \/ RiskOrder(ctx.risk) <= RiskOrder(grant.risk)
  /\ grant.target \in {"none", ctx.target}
  /\ grant.caps \subseteq ctx.caps

Specificity(grant) ==
  (IF grant.operation # "*" THEN 8 ELSE 0) + (IF grant.scope # "*" THEN 4 ELSE 0)
  + (IF grant.target # "none" THEN 3 ELSE 0) + (IF grant.isPath THEN 3 ELSE 0)
  + (IF grant.scope = "channel" THEN 2 ELSE 0) + (IF grant.actor # "*" THEN 2 ELSE 0)
  + (IF grant.risk # "*" THEN 1 ELSE 0) + Cardinality(grant.caps)

(* The positions of the grants that match, and the one that speaks: sort()
   is stable, so the earliest of the most specific.                         *)
Matching(grants, ctx, now) == {i \in DOMAIN grants : GrantMatches(grants[i], ctx, now)}
Speaks(i, grants, ctx, now) ==
  /\ i \in Matching(grants, ctx, now)
  /\ \A j \in Matching(grants, ctx, now) :
       \/ Specificity(grants[j]) < Specificity(grants[i])
       \/ Specificity(grants[j]) = Specificity(grants[i]) /\ i <= j

(* Defective: an allow grant settles an operation under final review too.   *)
EvaluateTrustingGrants(ctx, grants, mode, now) ==
  IF Matching(grants, ctx, now) = {}
  THEN IF mode = "full_access" /\ ~FinalReviewRequired(ctx) THEN "allow" ELSE "ask"
  ELSE grants[CHOOSE i \in DOMAIN grants : Speaks(i, grants, ctx, now)].decision

(* evaluateApproval *)
Evaluate(ctx, grants, mode, now) ==
  IF Matching(grants, ctx, now) = {}
  THEN IF mode = "full_access" /\ ~FinalReviewRequired(ctx) THEN "allow" ELSE "ask"
  ELSE LET grant == grants[CHOOSE i \in DOMAIN grants : Speaks(i, grants, ctx, now)]
       IN IF grant.decision = "deny" THEN "deny"
          ELSE IF FinalReviewRequired(ctx) THEN "ask" ELSE grant.decision

(* approvalGrantFromEvaluation, as approval_runtime's remember() calls it.  *)
RememberedGrant(ctx, isPath, mode, expires) ==
  IF mode = "full_access"
  THEN [ operation |-> "*", scope |-> "*", target |-> "none", isPath |-> FALSE,
         risk |-> "*", actor |-> ctx.actor, caps |-> {}, decision |-> "allow",
         expires |-> expires ]
  ELSE [ operation |-> ctx.operation, scope |-> ctx.scope, target |-> ctx.target,
         isPath |-> isPath, risk |-> ctx.risk, actor |-> ctx.actor,
         caps |-> ctx.caps, decision |-> "allow", expires |-> expires ]

(* buildSystemGrants of approval_runtime.ts.                                *)
SystemGrant(op, target) ==
  [ operation |-> op, scope |-> "task_type", target |-> target, isPath |-> FALSE,
    risk |-> "low", actor |-> "*", caps |-> {}, decision |-> "allow",
    expires |-> Never ]
SystemGrants == << SystemGrant("llm.call", "llm_call"), SystemGrant("noop", "noop") >>
=============================================================================
