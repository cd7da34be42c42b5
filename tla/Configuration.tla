--------------------------- MODULE Configuration ---------------------------
(***************************************************************************)
(* What the gateway reads from its environment and what becomes of it:     *)
(* the boot (serve.ts, plugin_loader.ts, llm_config.ts, the WebChat        *)
(* constructor), the doctor (doctor.ts), and the configuration that setup  *)
(* and the settings page write (setup_config.ts, api_settings.ts).         *)
(*                                                                         *)
(* An environment is a function of the variables that are set; one that is *)
(* set to the empty text has the value "blank".  A token is told apart by  *)
(* its text and its length; any other value by what the code makes of it.  *)
(* BLUE_TANUKI_LLM_TIMEOUT_MS stands for the three numbers of the command  *)
(* route, LLM_BACKEND also for LLM_DEFAULT_BACKEND, and                    *)
(* OPENAI_COMPAT_HEADERS_JSON for LLM_HEADERS_JSON.                        *)
(***************************************************************************)
EXTENDS Naturals, FiniteSets

TokenLength == [curt |-> 7, plain |-> 12, first |-> 32, second |-> 32, third |-> 32]

(* What is read with ?? may be blank; most is read as if blank were unset.  *)
Present(env)            == {name \in DOMAIN env : env[name] # "blank"}
Raw(env, name, default) == IF name \in DOMAIN env THEN env[name] ELSE default
Val(env, name, default) == IF name \in Present(env) THEN env[name] ELSE default
Given(env, names)       == names \cap Present(env) # {}

(* loadEnvFile leaves alone what is set already, to nothing also. *)
LoadEnvFile(env, file) ==
  [name \in DOMAIN env \cup DOMAIN file |->
     IF name \in DOMAIN env THEN env[name] ELSE file[name]]

-----------------------------------------------------------------------------
(* The LLM.  A row of LLM_PROVIDERS_JSON may name the variable of its key.  *)
Backend(env)        == Val(env, "LLM_BACKEND", "stub")
Rows(env)           == Val(env, "LLM_PROVIDERS_JSON", "none")
OpenaiEndpoint(env) == Given(env, {"OPENAI_COMPAT_ENDPOINT", "OPENAI_ENDPOINT", "LLM_ENDPOINT"})
OpenaiModel(env)    == Given(env, {"OPENAI_COMPAT_MODEL", "OPENAI_MODEL", "LLM_MODEL"})
OpenaiKey(env)      == Given(env, {"OPENAI_COMPAT_API_KEY", "OPENAI_API_KEY", "LLM_API_KEY"})

ParsesProvidersJson(env) == Rows(env) # "malformed"
RowNames(env) == IF Rows(env) = "none" THEN {} ELSE {"local-fast", "fast"}

ParsesHeaders(env) == Val(env, "OPENAI_COMPAT_HEADERS_JSON", "fits") = "fits"

ParsesCommandRoute(env) == Val(env, "BLUE_TANUKI_LLM_TIMEOUT_MS", "fits") = "fits"

(* buildLLMBackendFromEnv registers what is configured or asked for; each
   adapter's constructor wants what it cannot do without. *)
AnthropicRegistered(env) ==
  Given(env, {"ANTHROPIC_API_KEY"}) \/ Backend(env) \in {"anthropic", "claude"}
OpenaiRegistered(env) ==
  \/ OpenaiModel(env) /\ (OpenaiEndpoint(env) \/ OpenaiKey(env))
  \/ Backend(env) \in {"openai", "openai-compatible"}
NativeOpenai(env) == Backend(env) = "openai" \/ Given(env, {"OPENAI_API_KEY"})

BuildsLLMBackend(env) ==
  /\ AnthropicRegistered(env) => Given(env, {"ANTHROPIC_API_KEY"})
  /\ OpenaiRegistered(env) =>
       /\ ParsesHeaders(env) /\ OpenaiModel(env)
       /\ OpenaiEndpoint(env) \/ NativeOpenai(env)
  /\ ParsesProvidersJson(env)
  /\ Backend(env) \in {"stub"} \cup RowNames(env)
       \cup (IF AnthropicRegistered(env) THEN {"anthropic", "claude"} ELSE {})
       \cup (IF OpenaiRegistered(env) THEN {"openai", "openai-compatible"} ELSE {})

(* listConfiguredLLMProviders, by other conditions. *)
ConfiguredProviders(env) ==
  {"stub"} \cup RowNames(env)
    \cup (IF Given(env, {"ANTHROPIC_API_KEY"}) \/ Backend(env) = "anthropic"
          THEN {"anthropic"} ELSE {})
    \cup (IF \/ OpenaiEndpoint(env) /\ OpenaiModel(env)
             \/ Backend(env) \in {"openai", "openai-compatible"}
          THEN {"openai-compatible"} ELSE {})

(* The permissions in the manifest of the core package. *)
CoreSecrets ==
  { "ANTHROPIC_API_KEY", "OPENAI_API_KEY", "OPENAI_COMPAT_API_KEY", "LLM_API_KEY",
    "LLM_PROVIDERS_JSON", "OPENAI_COMPAT_HEADERS_JSON", "LLM_HEADERS_JSON" }

ProviderSecretEnvNames(env) == IF Rows(env) = "keyed" THEN {"LOCAL_LLM_API_KEY"} ELSE {}

EnforcesLLMConfig(env) ==
  /\ ParsesProvidersJson(env)
  /\ ({"ANTHROPIC_API_KEY", "OPENAI_API_KEY", "OPENAI_COMPAT_API_KEY", "LLM_API_KEY"}
        \cap Present(env)) \cup ProviderSecretEnvNames(env) \subseteq CoreSecrets

-----------------------------------------------------------------------------
(* The boot: the first thing that throws ends it. *)
Token(env, name)  == Val(env, name, "unset")
Length(token)     == IF token = "unset" THEN 0 ELSE TokenLength[token]
ChatTokens        == {"WEBCHAT_TOKEN", "WEBCHAT_RESUME_TOKEN"}
AllTokens         == ChatTokens \cup {"WEBHOOK_TOKEN", "BLUE_TANUKI_SETTINGS_TOKEN"}

Differs(env, name, names) ==
  \A other \in names \ {name} : Token(env, other) = "unset" \/ Token(env, other) # Token(env, name)

SettingsSurfaceAllowed(env) ==
  /\ Given(env, {"BLUE_TANUKI_SETTINGS_TOKEN"})
  /\ Raw(env, "WEBCHAT_HOST", "loopback") = "loopback" \/ Given(env, {"BLUE_TANUKI_ENABLE_SETTINGS"})

ConstructsWebChat(env) ==
  /\ \A name \in ChatTokens : Length(Token(env, name)) >= 8
  /\ Differs(env, "WEBCHAT_RESUME_TOKEN", ChatTokens)
  /\ Given(env, {"WEBHOOK_TOKEN"}) =>
       /\ Length(Token(env, "WEBHOOK_TOKEN")) >= 8
       /\ Differs(env, "WEBHOOK_TOKEN", ChatTokens)
  /\ SettingsSurfaceAllowed(env) =>
       /\ Length(Token(env, "BLUE_TANUKI_SETTINGS_TOKEN")) >= 16
       /\ Differs(env, "BLUE_TANUKI_SETTINGS_TOKEN", AllTokens)
  /\ Raw(env, "WEBCHAT_PORT", "fits") = "fits"

(* world: what is not in the environment.  packages says which workspace
   packages are there and whether their manifests are valid, chain whether
   the audit file verifies, schedules whether the file of schedules that is
   read unasked parses. *)
CorePackage    == {"blue-tanuki", "hds-brain", "channel-webchat"}
PreviewPackage == {"channel-slack"}

LoadsWorkspacePlugins(world) ==
  /\ \A p \in DOMAIN world.packages : world.packages[p] # "invalid"
  /\ \A p \in CorePackage : world.packages[p] = "valid"

BuildsAuditLog(env, world) ==
  Given(env, {"BLUE_TANUKI_AUDIT_DIR"}) => env["BLUE_TANUKI_AUDIT_DIR"] = "usable" /\ world.chain

(* The memory, the failure memory, the complete history and the grants, each
   in a file that may be named and may not load (BLUE_TANUKI_MEMORY is its
   _FILE or its _DIR); and the schedules, in a directory read in any case. *)
OpensStores(env, world) ==
  /\ \A name \in {"BLUE_TANUKI_MEMORY", "BLUE_TANUKI_FAILURE_MEMORY",
                   "BLUE_TANUKI_COMPLETE_HISTORY_FILE", "BLUE_TANUKI_APPROVALS_FILE"} :
       Val(env, name, "usable") = "usable"
  /\ IF "BLUE_TANUKI_SCHEDULES_DIR" \in DOMAIN env
     THEN env["BLUE_TANUKI_SCHEDULES_DIR"] # "unusable" ELSE world.schedules

(* Tasks that do not parse, and tasks that have the id of a schedule. *)
ReadsCronSchedules(env) == Val(env, "BLUE_TANUKI_SCHEDULES_JSON", "fits") # "unparsable"
ConstructsCron(env)     == Val(env, "BLUE_TANUKI_SCHEDULES_JSON", "fits") # "taken"

(* The services of the daily brief: one of them, or all when none is named. *)
GoogleServices == {"gmail", "calendar", "drive"}
Services(env) ==
  LET named == Val(env, "BLUE_TANUKI_DAILY_BRIEF_GOOGLE_SERVICES", "all")
  IN IF named = "all" THEN GoogleServices ELSE {named}
ReadsGoogleServices(env) ==
  Given(env, {"BLUE_TANUKI_DAILY_BRIEF_GOOGLE_ENABLED"}) => Services(env) \subseteq GoogleServices

Boots(env, world) ==
  /\ LoadsWorkspacePlugins(world)
  /\ EnforcesLLMConfig(env) /\ ParsesCommandRoute(env) /\ BuildsLLMBackend(env)
  /\ Val(env, "BLUE_TANUKI_SESSION_DIR", "usable") = "usable"
  /\ BuildsAuditLog(env, world) /\ OpensStores(env, world)
  /\ ReadsCronSchedules(env) /\ ConstructsCron(env) /\ ReadsGoogleServices(env)
  /\ ConstructsWebChat(env) /\ world.port_free
=============================================================================
