------------------------------ MODULE MCStores ------------------------------
(***************************************************************************)
(* What the gateway keeps in files: hash chains, the history of a session, *)
(* the rules of the failure memory, the environment file.  They share      *)
(* nothing, and lane names the one that moves.                             *)
(*                                                                         *)
(* Two records tell two histories apart that meet in one file.  Three      *)
(* turns write six lines at most into a file that is cut to two when it    *)
(* has outgrown three.  One rule goes through every change a rule can go   *)
(* through, between restarts and one write that fails.  Two saves of the   *)
(* settings, or setups, overlap in every way, around one restart.          *)
(***************************************************************************)
EXTENDS DurableChain, SessionTurns, FailureMemory, Provisioning

VARIABLE lane

(* What setup leaves: three tokens, the stub. *)
MCTokens == "WEBCHAT_TOKEN" :> "first" @@ "WEBCHAT_RESUME_TOKEN" :> "second"
              @@ "BLUE_TANUKI_SETTINGS_TOKEN" :> "third"

storeVars == <<chainVars, turnVars, failureVars, envVars, lane>>

StoresInit ==
  /\ lane \in {"chain", "session", "failures", "settings"}
  /\ ChainInit /\ TurnsInit /\ FailureInit /\ ProvisioningInit
  /\ lane # "chain" => store = "audit"
  /\ lane # "settings" => os = <<>> /\ text["first file"] = MCTokens

Alone(l, others) == lane = l /\ UNCHANGED <<lane, others>>

StoresNext ==
  \/ Alone("chain", <<turnVars, failureVars, envVars>>) /\ ChainNext
  \/ Alone("session", <<chainVars, failureVars, envVars>>) /\ TurnsNext
  \/ Alone("failures", <<chainVars, turnVars, envVars>>) /\ FailureNext
  \/ Alone("settings", <<chainVars, turnVars, failureVars>>) /\ ProvisioningNext

(* No fair action of a session can be taken before its first turn began.    *)
StoresSpec == StoresInit /\ [][StoresNext]_storeVars /\ TurnFairness

StoresTypeOK == ChainTypeOK /\ WithinMaxEntries /\ SessionTypeOK /\ FailureTypeOK /\ ProvisioningTypeOK

-----------------------------------------------------------------------------
(* An execution error, a boundary decision and an output under audit. *)
MCEvent == {"boundary_error", "permission_error", "bad_command", "boundary_decision", "held_output"}

(* A block rule in force that is sure of itself, and one in the shadow that
   is not. *)
MCCallerRule ==
  {Signature(k, "caller", Failure("other", "high", 95, 1), "active", "block") : k \in Key}
    \cup {Signature(k, "caller", Failure("testable", "medium", 40, 1), "shadow", "block") : k \in Key}

(* A process that knows a key and a token, one that fixes the backend, one
   with a key set to nothing, and one with headers that do not parse. *)
MCOsEnv ==
  { <<>>, "LLM_API_KEY" :> "given" @@ "WEBCHAT_TOKEN" :> "plain", "LLM_BACKEND" :> "local-fast",
    "ANTHROPIC_API_KEY" :> "blank", "OPENAI_COMPAT_HEADERS_JSON" :> "unparsable" }

(* Next to setup's file, one with a row of its own and one for openai. *)
MCFirstText ==
  { MCTokens,
    MCTokens @@ "LLM_BACKEND" :> "local-fast" @@ "LLM_PROVIDERS_JSON" :> "row",
    MCTokens @@ "LLM_BACKEND" :> "openai" @@ "OPENAI_API_KEY" :> "given"
      @@ "OPENAI_MODEL" :> "given" @@ "BLUE_TANUKI_LLM_TIMEOUT_MS" :> "fits" }

MCPatch ==
  { [provider |-> "anthropic", model |-> TRUE], [provider |-> "openai", model |-> TRUE, key |-> TRUE],
    [provider |-> "openai-compatible", model |-> TRUE, endpoint |-> TRUE],
    [port |-> "out_of_range"] }

MCInstallation ==
  [ packages |-> [p \in CorePackage |-> "valid"], chain |-> TRUE, schedules |-> TRUE,
    port_free |-> TRUE ]
=============================================================================
