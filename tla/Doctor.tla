------------------------------- MODULE Doctor -------------------------------
(***************************************************************************)
(* doctor.ts: the checks of an environment before a deployment, and the    *)
(* verdict on all of them.  Each check is the level it reports: "ignorable" *)
(* is a warning that is safe to ignore, "throws" a doctor that ends         *)
(* without a report.                                                        *)
(***************************************************************************)
EXTENDS Configuration, SequencesExt

ErrorIf(bad) == IF bad THEN "error" ELSE "ok"

CheckNodeVersion(world) == ErrorIf(~world.node)

CheckRequiredEnv(env, name) ==
  IF Token(env, name) = "unset" THEN "error"
  ELSE IF Length(Token(env, name)) < 8 THEN "warn" ELSE "ok"

(* The modes in which a variable that is else optional is required. *)
PreviewEnv ==
  { "SLACK_BOT_TOKEN", "SLACK_APP_TOKEN", "DISCORD_BOT_TOKEN",
    "MICROSOFT_GRAPH_ACCESS_TOKEN", "LINE_CHANNEL_ACCESS_TOKEN" }
StrictEnv == {"ANTHROPIC_API_KEY", "GITHUB_TOKEN", "BLUE_TANUKI_GITHUB_REPOS"}

CheckOptionalEnv(env, name, mode) ==
  IF Given(env, {name}) THEN "ok"
  ELSE IF \/ name \in PreviewEnv /\ mode \in {"preview", "strict"}
          \/ name \in StrictEnv  /\ mode = "strict"
       THEN "error" ELSE "ignorable"

CheckWebchatTokenSeparation(env) ==
  ErrorIf(~ChatTokens \subseteq Present(env) \/ ~Differs(env, "WEBCHAT_RESUME_TOKEN", ChatTokens))

CheckSettingsToken(env) ==
  ErrorIf(/\ Given(env, {"BLUE_TANUKI_SETTINGS_TOKEN"})
          /\ \/ Length(env["BLUE_TANUKI_SETTINGS_TOKEN"]) < 16
             \/ ~Differs(env, "BLUE_TANUKI_SETTINGS_TOKEN", AllTokens))

CheckWebhookToken(env) ==
  ErrorIf(/\ Given(env, {"WEBHOOK_TOKEN"})
          /\ Length(env["WEBHOOK_TOKEN"]) < 8 \/ ~Differs(env, "WEBHOOK_TOKEN", AllTokens))

CheckLlmBackend(env) ==
  ErrorIf(~(/\ ParsesProvidersJson(env)
            /\ CASE Backend(env) = "stub" -> TRUE
                 [] Backend(env) \in {"anthropic", "claude"} -> Given(env, {"ANTHROPIC_API_KEY"})
                 [] Backend(env) = "openai" -> OpenaiModel(env) /\ OpenaiKey(env)
                 [] Backend(env) = "openai-compatible" -> OpenaiModel(env) /\ OpenaiEndpoint(env)
                 [] OTHER -> Backend(env) \in ConfiguredProviders(env)))

CheckLlmCommandRoute(env) ==
  ErrorIf(\/ ~ParsesCommandRoute(env) \/ ~ParsesProvidersJson(env)
          \/ Val(env, "BLUE_TANUKI_LLM_BACKEND_HINT", "stub") \notin ConfiguredProviders(env))

CheckCronSchedules(env) == ErrorIf(~ReadsCronSchedules(env))

GoogleToken == [gmail |-> "GMAIL_ACCESS_TOKEN", calendar |-> "GOOGLE_CALENDAR_ACCESS_TOKEN",
                drive |-> "GOOGLE_DRIVE_ACCESS_TOKEN"]

CheckGoogleDailyBriefSource(env) ==
  IF ~Given(env, {"BLUE_TANUKI_DAILY_BRIEF_GOOGLE_ENABLED"}) THEN "ok"
  ELSE IF ~Given(env, {"BLUE_TANUKI_DAILY_BRIEF_ENABLED"}) THEN "ignorable"
  ELSE ErrorIf(\/ ~ReadsGoogleServices(env)
               \/ \E service \in Services(env) :
                    ~Given(env, {GoogleToken[service], "GOOGLE_ACCESS_TOKEN"}))

(* The same probe of four directories: it is made, or is there, and a file
   can be written to it; the audit chain in it is not verified. *)
CheckSessionDir(env) == ErrorIf(Val(env, "BLUE_TANUKI_SESSION_DIR", "usable") # "usable")
CheckAuditDir(env)   == ErrorIf(Val(env, "BLUE_TANUKI_AUDIT_DIR", "usable") # "usable")
CheckFileRoot(env)   == ErrorIf(Val(env, "BLUE_TANUKI_FILE_ROOT", "usable") # "usable")
CheckShellRoot(env)  == ErrorIf(Val(env, "BLUE_TANUKI_SHELL_ROOT", "usable") # "usable")

-----------------------------------------------------------------------------
(* The checks of the installation.  Without the preview packages and the
   installer it is a release of the core, which may lack them. *)
IsCoreReleaseExtraction(world) == world.core_release

WithRepoRoot(world, failed) == IF ~world.root THEN "warn" ELSE ErrorIf(failed)

ValidateManifestPackage(world, p) == world.packages[p] = "valid"

CheckBundledManifests(world) ==
  WithRepoRoot(world,
    \E p \in CorePackage \cup PreviewPackage :
      /\ ~ValidateManifestPackage(world, p)
      /\ ~(p \in PreviewPackage /\ IsCoreReleaseExtraction(world) /\ world.packages[p] = "absent"))

(* docs/compatibility-matrix.json must say of each channel what is released,
   and no channel may have a wildcard permission. *)
CoreChannel    == {"webchat", "telegram"}
PreviewChannel == {"discord", "slack", "teams", "line"}
ChannelStatus(channel) ==
  IF channel \in CoreChannel THEN "first-party"
  ELSE IF channel \in PreviewChannel THEN "first-party-preview" ELSE "reserved-third-party"

CheckCompatibilityMatrix(world) ==
  WithRepoRoot(world,
    \/ \E c \in CoreChannel \cup PreviewChannel \cup {"whatsapp"} :
         world.matrix[c] # ChannelStatus(c)
    \/ world.wildcard # {} \/ world.whatsapp_adapter)

(* Each file of DISTRIBUTION_REQUIREMENTS has the words asked of it; some
   may be absent from a release of the core. *)
CheckDistributionReadiness(world) ==
  WithRepoRoot(world,
    \E req \in DOMAIN world.surfaces :
      /\ world.surfaces[req].text # "complete"
      /\ ~(world.surfaces[req].text = "absent" /\ world.surfaces[req].optional
             /\ IsCoreReleaseExtraction(world)))

(* A port that is no port makes listen() throw, and the probe with it. *)
ProbePort(env, world) ==
  IF Raw(env, "WEBCHAT_PORT", "fits") # "fits" THEN "throws" ELSE ErrorIf(~world.port_free)

-----------------------------------------------------------------------------
RunDoctor(env, world, mode) ==
  << CheckNodeVersion(world),
     CheckRequiredEnv(env, "WEBCHAT_TOKEN"), CheckRequiredEnv(env, "WEBCHAT_RESUME_TOKEN"),
     CheckWebchatTokenSeparation(env), CheckWebhookToken(env), CheckSettingsToken(env),
     CheckLlmBackend(env), CheckLlmCommandRoute(env),
     CheckCronSchedules(env), CheckGoogleDailyBriefSource(env),
     CheckSessionDir(env), CheckAuditDir(env), CheckFileRoot(env), CheckShellRoot(env),
     CheckBundledManifests(world), CheckCompatibilityMatrix(world),
     CheckDistributionReadiness(world), ProbePort(env, world) >>
  \o SetToSeq({CheckOptionalEnv(env, name, mode) : name \in PreviewEnv \cup StrictEnv})

(* The exit code of a report: an error is 2, a warning that counts is 1. *)
ExitCode(report) ==
  IF "error" \in Range(report) THEN 2 ELSE IF "warn" \in Range(report) THEN 1 ELSE 0

Reports(report) == "throws" \notin Range(report)
=============================================================================
