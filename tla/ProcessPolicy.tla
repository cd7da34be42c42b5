--------------------------- MODULE ProcessPolicy ---------------------------
(***************************************************************************)
(* The deterministic half of HDS-BRAIN's judgement: who is asking          *)
(* (resolveActor), under which process (resolveProcess), which command the *)
(* request would become (routeAction, buildCommand), and the two denials   *)
(* that do not depend on detector scores (processAuthorityViolation,       *)
(* commandExecutionPolicyViolation).                                       *)
(*                                                                         *)
(* A request is abstracted to what these functions tell apart:             *)
(*   channel    where it came from ("chat" is any interactive channel)     *)
(*   localUser  user = "local-user"                                        *)
(*   trusted    metadata carries the gateway_internal_v1 marker            *)
(*   actorHint, processHint, trigger                                       *)
(*              the kinds that metadata declares, or "none"                *)
(*   ask        the explicit tool request: a catalogued tool, an           *)
(*              "unsupported" one, a "bare" prefix no route parses, "none" *)
(*   resumeMark metadata carries the resume marker                         *)
(*   send       the trusted channel_send triple is complete                *)
(***************************************************************************)
EXTENDS ToolCatalog

CONSTANT LLMRouteTimeout        \* llm_route.timeout_ms, 30000 by default

ASSUME RouteTimeoutAssumption == LLMRouteTimeout \in Nat

ActorKind   == {"owner", "user", "system", "webhook", "cron"}
ProcessKind == {"chat", "tool", "approval", "cron", "webhook", "system"}
Channel     == {"chat", "cli", "cron", "webhook", "system"}
Ask         == Tool \cup {"none", "bare", "unsupported"}

Inbound ==
  [ channel: Channel, localUser: BOOLEAN, trusted: BOOLEAN,
    actorHint: ActorKind \cup {"none"}, processHint: ProcessKind \cup {"none"},
    trigger: {"cron", "webhook", "none"}, ask: Ask, resumeMark: BOOLEAN, send: BOOLEAN ]

-----------------------------------------------------------------------------
(* Actor and process.                                                       *)

TriggeredBy(q, kind) == q.channel = kind \/ (q.trusted /\ q.trigger = kind)

InferActorKind(q) ==
  IF TriggeredBy(q, "cron") THEN "cron"
  ELSE IF TriggeredBy(q, "webhook") THEN "webhook"
  ELSE IF q.channel = "system" THEN "system"
  ELSE IF q.channel = "cli" /\ q.localUser THEN "owner"
  ELSE "user"

ResolveActor(q) ==
  IF q.trusted /\ q.actorHint # "none" THEN q.actorHint ELSE InferActorKind(q)

InferProcessKind(q) ==
  LET actor == ResolveActor(q)
  IN IF actor \in {"cron", "webhook"} THEN actor
     ELSE IF q.ask # "none" THEN "tool"
     ELSE IF q.trusted /\ q.resumeMark THEN "approval"
     ELSE "chat"

ResolveProcess(q) ==
  IF q.trusted /\ q.processHint # "none" THEN q.processHint ELSE InferProcessKind(q)

AllowedActorKinds(process) ==
  CASE process = "approval" -> {"owner", "user"}
    [] process = "cron"     -> {"cron", "system", "owner"}
    [] process = "webhook"  -> {"webhook"}
    [] OTHER -> ActorKind

OwnerRequired(process) == process = "approval"

(* processAuthorityViolation.  The two trigger conditions of the code repeat
   AllowedActorKinds for the webhook and the cron process. *)
ProcessAuthorityViolation(q) ==
  LET actor   == ResolveActor(q)
      process == ResolveProcess(q)
  IN \/ actor \notin AllowedActorKinds(process)
     \/ OwnerRequired(process) /\ actor # "owner"
     \/ process = "webhook" /\ actor # "webhook"
     \/ process = "cron" /\ actor \notin {"cron", "system", "owner"}

-----------------------------------------------------------------------------
(* The command a request becomes, and what its process lets run.            *)

NoTimeout == 0        \* the command carries no timeout constraint

BuildCommand(q) ==
  CASE q.ask \in Tool ->
         [type |-> "tool_call", tool |-> q.ask,
          caps |-> ToolCaps[q.ask], timeout |-> ToolTimeout[q.ask]]
    [] q.ask = "unsupported" ->
         [type |-> "noop", tool |-> "none", caps |-> {}, timeout |-> NoTimeout]
    [] q.ask \in {"none", "bare"} /\ q.trusted /\ q.send ->
         [type |-> "channel_send", tool |-> "none", caps |-> {"channel:send"},
          timeout |-> IF LLMRouteTimeout < 30000 THEN LLMRouteTimeout ELSE 30000]
    [] OTHER ->
         [type |-> "llm_call", tool |-> "none", caps |-> {},
          timeout |-> LLMRouteTimeout]

(* executionPolicy.  The capabilities listed for the tool process are the
   catalogue's; the chat process lists every tool but no capability. *)
ExecutionPolicy(process) ==
  CASE process = "tool" ->
         [types |-> {"tool_call", "noop"}, tools |-> Tool,
          caps |-> Capability \ {"channel:send"}, timeout |-> 15000]
    [] process = "cron" ->
         [types |-> {"llm_call", "channel_send", "noop"}, tools |-> {},
          caps |-> {"channel:send"}, timeout |-> 30000]
    [] process = "webhook" ->
         [types |-> {"noop", "channel_send"}, tools |-> {}, caps |-> {},
          timeout |-> 10000]
    [] OTHER ->
         [types |-> {"llm_call", "tool_call", "noop"}, tools |-> Tool,
          caps |-> {}, timeout |-> 30000]

ExecutionPolicyViolation(q) ==
  LET command == BuildCommand(q)
      policy  == ExecutionPolicy(ResolveProcess(q))
  IN \/ command.type \notin policy.types
     \/ command.type = "tool_call" /\ command.tool \notin policy.tools
     \/ ~(command.caps \subseteq policy.caps)
     \/ command.timeout > policy.timeout
=============================================================================
