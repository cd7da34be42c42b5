---------------------------- MODULE Provisioning ----------------------------
(***************************************************************************)
(* The environment file of the gateway: what setup and the settings page   *)
(* write to it (setup.ts, setup_config.ts, api_settings.ts,                *)
(* settings_surface.ts), how it is written (env_file.ts), and the restarts *)
(* that read it.  The file is a text, which is the environment it parses   *)
(* to; names refer to inodes, so that a save may write to a file another   *)
(* has already renamed.                                                    *)
(***************************************************************************)
EXTENDS Configuration

CONSTANTS Save,       \* writers of the file, and the inodes they make
          Patch,      \* what the page sends, or the options of setup
          OsEnv,      \* environments the process is started with
          FirstText,  \* what an operator may have put in the file
          World,      \* the installation
          MaxStops    \* bound on crashes and stops of the gateway

(* A text that is no configuration: the empty file between its truncation and
   the write, or what two writers of one file leave. *)
Empty   == <<>>
Mixture == [rubbish |-> "given"]

-----------------------------------------------------------------------------
(* Configurations.  A patch is a record with some of the fields provider,
   model, endpoint, key, route, port, host and dirs. *)
SetupTokens == ChatTokens \cup {"BLUE_TANUKI_SETTINGS_TOKEN"}
SetupDirs   == {"BLUE_TANUKI_FILE_ROOT", "BLUE_TANUKI_SESSION_DIR", "BLUE_TANUKI_AUDIT_DIR"}
Providers   == {"stub", "anthropic", "openai", "openai-compatible"}

(* What may be given as a number of the command route, and as a patch. *)
Routed(env) ==
  Val(env, "BLUE_TANUKI_LLM_TIMEOUT_MS", "fits") \in {"fits", "unparsable", "out_of_range"}
IsPatch(patch) ==
  /\ DOMAIN patch \subseteq {"provider", "model", "endpoint", "key", "route", "port", "host", "dirs"}
  /\ Raw(patch, "provider", "stub") \in Providers
  /\ Raw(patch, "route", "unset") \in {"unset", "fits", "out_of_range"}
  /\ \A field \in {"model", "endpoint", "key"} : Raw(patch, field, FALSE) \in BOOLEAN

ASSUME ProvisioningAssumption ==
  /\ MaxStops \in Nat /\ Save \cap {"first file", "none"} = {}
  /\ FirstText \cap {Empty, Mixture} = {}
  /\ \A env \in OsEnv \cup FirstText : Routed(env)
  /\ \A patch \in Patch : IsPatch(patch)

(* Of which variables a provider's setting is read, in order, and to which
   written.  The first that is set is read, and one set to nothing hides the
   others. *)
ModelNames(provider) ==
  CASE provider = "anthropic" -> <<"ANTHROPIC_MODEL", "LLM_MODEL">>
    [] provider = "openai" -> <<"OPENAI_MODEL", "LLM_MODEL">>
    [] provider = "openai-compatible" -> <<"OPENAI_COMPAT_MODEL", "OPENAI_MODEL", "LLM_MODEL">>
    [] OTHER -> <<>>
EndpointNames(provider) ==
  CASE provider = "anthropic" -> <<"ANTHROPIC_ENDPOINT">>
    [] provider = "openai" -> <<"OPENAI_ENDPOINT">>
    [] provider = "openai-compatible" ->
         <<"OPENAI_COMPAT_ENDPOINT", "OPENAI_ENDPOINT", "LLM_ENDPOINT">>
    [] OTHER -> <<>>
KeyNames(provider) ==
  CASE provider = "anthropic" -> <<"ANTHROPIC_API_KEY">>
    [] provider = "openai" -> <<"OPENAI_API_KEY", "LLM_API_KEY">>
    [] provider = "openai-compatible" ->
         <<"OPENAI_COMPAT_API_KEY", "OPENAI_API_KEY", "LLM_API_KEY">>
    [] OTHER -> <<>>
FirstSet(env, names) ==
  \E i \in DOMAIN names : names[i] \in Present(env) /\ \A j \in 1..(i - 1) : names[j] \notin DOMAIN env

VariablesOf(provider) ==
  CASE provider = "anthropic" ->
         [model |-> "ANTHROPIC_MODEL", endpoint |-> "ANTHROPIC_ENDPOINT", key |-> "ANTHROPIC_API_KEY"]
    [] provider = "openai" ->
         [model |-> "OPENAI_MODEL", endpoint |-> "OPENAI_ENDPOINT", key |-> "OPENAI_API_KEY"]
    [] OTHER ->
         [model |-> "OPENAI_COMPAT_MODEL", endpoint |-> "OPENAI_COMPAT_ENDPOINT",
          key |-> "OPENAI_COMPAT_API_KEY"]

Generated == [WEBCHAT_TOKEN |-> "first", WEBCHAT_RESUME_TOKEN |-> "second",
              BLUE_TANUKI_SETTINGS_TOKEN |-> "third"]

(* A provider the configuration does not know becomes stub; a number that
   does not parse is forgotten; a missing token is generated. *)
ConfigFromEnv(env) ==
  LET provider == IF Backend(env) \in Providers THEN Backend(env) ELSE "stub"
      route == Val(env, "BLUE_TANUKI_LLM_TIMEOUT_MS", "unset")
      port  == Val(env, "WEBCHAT_PORT", "fits")
  IN [ provider |-> provider,
       model    |-> FirstSet(env, ModelNames(provider)),
       endpoint |-> FirstSet(env, EndpointNames(provider)),
       key      |-> FirstSet(env, KeyNames(provider)),
       hint     |-> Val(env, "BLUE_TANUKI_LLM_BACKEND_HINT", "unset"),
       route    |-> IF route = "unparsable" THEN "unset" ELSE route,
       port     |-> IF port = "unparsable" THEN "fits" ELSE port,
       host     |-> Raw(env, "WEBCHAT_HOST", "loopback"),
       dirs     |-> [d \in SetupDirs |-> Raw(env, d, "usable")],
       tokens   |-> [name \in SetupTokens |-> Raw(env, name, Generated[name])] ]

(* Defective: a key or a model is enough. *)
ValidConfigEither(config) ==
  /\ config.route # "out_of_range" /\ config.port = "fits" /\ config.host # "blank"
  /\ config.provider # "stub" => config.key \/ config.model
  /\ \A d \in SetupDirs : config.dirs[d] # "blank"
  /\ \A name \in SetupTokens :
       Length(Token(config.tokens, name)) >= 16 /\ Differs(config.tokens, name, SetupTokens)

ValidConfig(config) ==
  /\ config.route # "out_of_range" /\ config.port = "fits" /\ config.host # "blank"
  /\ config.provider \in {"anthropic", "openai"} => config.key /\ config.model
  /\ config.provider = "openai-compatible" => config.endpoint /\ config.model
  /\ \A d \in SetupDirs : config.dirs[d] # "blank"
  /\ \A name \in SetupTokens :
       Length(Token(config.tokens, name)) >= 16 /\ Differs(config.tokens, name, SetupTokens)

(* The patch goes over the fields, whichever provider they were meant for. *)
ApplySettingsPatch(config, patch) ==
  [field \in DOMAIN config |-> IF field \in DOMAIN patch THEN patch[field] ELSE config[field]]

(* setupConfigToEnv and renderSetupEnvFile: the variables the file will have,
   and no other that it had, and what they are set to. *)
WrittenVariables(config) ==
  LET names == VariablesOf(config.provider)
      when(given, name) == IF given THEN {name} ELSE {}
      real == config.provider # "stub"
  IN {"LLM_BACKEND", "WEBCHAT_HOST", "WEBCHAT_PORT"} \cup SetupTokens \cup SetupDirs
       \cup when(real /\ config.model, names.model)
       \cup when(real /\ config.endpoint, names.endpoint)
       \cup when(real /\ config.key, names.key)
       \cup when(config.hint # "unset", "BLUE_TANUKI_LLM_BACKEND_HINT")
       \cup when(config.route # "unset", "BLUE_TANUKI_LLM_TIMEOUT_MS")

RenderSetupEnvFile(config) ==
  [name \in WrittenVariables(config) |->
     CASE name = "LLM_BACKEND"  -> config.provider
       [] name = "WEBCHAT_HOST" -> config.host
       [] name = "WEBCHAT_PORT" -> config.port
       [] name \in SetupTokens -> config.tokens[name]
       [] name \in SetupDirs   -> config.dirs[name]
       [] name = "BLUE_TANUKI_LLM_BACKEND_HINT" -> config.hint
       [] name = "BLUE_TANUKI_LLM_TIMEOUT_MS"   -> config.route
       [] OTHER -> "given"]

-----------------------------------------------------------------------------
Inode == Save \cup {"first file"}
None  == "none"

VARIABLES os,       \* the environment the process is started with
          text,     \* per inode: what is in it
          named,    \* which inode the name of the environment file is
          tmp,      \* per temporary name: which inode it is
          backups,  \* the texts of the backups
          gateway,  \* the environment it runs with, or Down
          saves,    \* per writer: its stage and what it holds
          stops,    \* crashes and stops so far
          had,     \* every whole text the file has had
          alone,    \* no save began while another was under way
          apart     \* no save opened a temporary file that was there

files   == <<text, named, tmp, backups>>
envVars == <<os, files, gateway, saves, stops, had, alone, apart>>

UnderWay(s) == saves[s].stage \in {"read", "kept", "open", "written"}
To(s, stage) == saves' = [saves EXCEPT ![s] = [@ EXCEPT !.stage = stage]]
Had(i)  == had' = had \cup ({text'[i]} \ {Empty, Mixture})
Down         == <<>>   \* the gateway boots with no such environment

ProvisioningInit ==
  /\ os \in OsEnv
  /\ \E first \in FirstText :
       /\ text = [i \in Inode |-> IF i = "first file" THEN first ELSE Empty]
       /\ had = {first}
  /\ named = "first file" /\ tmp = [s \in Save |-> None] /\ backups = {}
  /\ gateway = Down /\ stops = 0 /\ alone = TRUE /\ apart = TRUE
  /\ saves = [s \in Save |-> [stage |-> "idle", text |-> Empty, name |-> s, inode |-> s]]

(* serve(): the environment file is loaded and the gateway boots, or throws. *)
StartGateway ==
  /\ gateway = Down /\ Boots(LoadEnvFile(os, text[named]), World)
  /\ gateway' = LoadEnvFile(os, text[named])
  /\ UNCHANGED <<os, files, saves, stops, had, alone, apart>>

(* A crash or a stop: the saves under way are gone, their files stay, under
   names the next process does not use. *)
StopGateway ==
  /\ gateway # Down /\ stops < MaxStops /\ stops' = stops + 1
  /\ gateway' = Down /\ tmp' = [s \in Save |-> None]
  /\ saves' = [s \in Save |-> IF UnderWay(s) THEN [saves[s] EXCEPT !.stage = "lost"] ELSE saves[s]]
  /\ UNCHANGED <<os, text, named, backups, had, alone, apart>>

BeginSave(s, next) ==
  /\ saves[s].stage = "idle"
  /\ saves' = [saves EXCEPT ![s] = [@ EXCEPT !.stage = next.stage, !.text = next.text]]
  /\ alone' = (alone /\ \A other \in Save : ~UnderWay(other))
  /\ UNCHANGED <<os, files, gateway, stops, had, apart>>

Accepted(config, patch) ==
  IF ValidConfig(ApplySettingsPatch(config, patch))
  THEN [stage |-> "read", text |-> RenderSetupEnvFile(ApplySettingsPatch(config, patch))]
  ELSE [stage |-> "refused", text |-> Empty]

(* The page's save: the file as it is now, over the environment the gateway
   has been running with; what it makes of them is rendered at once. *)
ReadForUpdate(s, patch) ==
  LET config == ConfigFromEnv(LoadEnvFile(text[named], gateway))
  IN /\ gateway # Down /\ text[named] # Mixture /\ SettingsSurfaceAllowed(gateway)
     /\ BeginSave(s, IF ValidConfig(config) THEN Accepted(config, patch)
                 ELSE [stage |-> "refused", text |-> Empty])

(* setup --force --yes, run while no gateway does: a configuration of its own
   over whatever was there. *)
RunSetupCommand(s, patch) ==
  /\ gateway = Down /\ \A other \in Save : ~UnderWay(other)
  /\ BeginSave(s, Accepted(ConfigFromEnv(<<>>), patch))

(* Defective: a backup that is there is kept. *)
BackupOnce(s) ==
  /\ saves[s].stage = "read" /\ To(s, "kept")
  /\ backups' = IF backups = {} THEN {text[named]} ELSE backups
  /\ UNCHANGED <<os, text, named, tmp, gateway, stops, had, alone, apart>>

(* writeEnvFileAtomic, await by await. *)
BackupEnvFile(s) ==
  /\ saves[s].stage = "read" /\ To(s, "kept")
  /\ backups' = backups \cup {text[named]}
  /\ UNCHANGED <<os, text, named, tmp, gateway, stops, had, alone, apart>>

(* The temporary name holds the process and the millisecond: two saves under
   way may share it, and then the second truncates the file of the first. *)
OpenTmp(s) ==
  /\ saves[s].stage = "kept"
  /\ \E name \in {s} \cup {saves[o].name : o \in {o \in Save : saves[o].stage \in {"open", "written"}}} :
       LET i == IF tmp[name] = None THEN s ELSE tmp[name]
       IN /\ tmp' = [tmp EXCEPT ![name] = i]
          /\ text' = [text EXCEPT ![i] = Empty]
          /\ apart' = (apart /\ i = s)
          /\ saves' = [saves EXCEPT ![s] = [@ EXCEPT !.stage = "open", !.name = name, !.inode = i]]
  /\ UNCHANGED <<os, named, backups, gateway, stops, had, alone>>

(* What two writers leave of one file is the text of the later, or that with
   the end of a longer one behind it. *)
WriteTmp(s) ==
  LET i == saves[s].inode
      mixed == \E o \in Save \ {s} : saves[o].inode = i /\ saves[o].stage # "idle"
  IN /\ saves[s].stage = "open" /\ To(s, "written")
     /\ \E left \in {saves[s].text} \cup (IF mixed THEN {Mixture} ELSE {}) :
          text' = [text EXCEPT ![i] = left]
     /\ Had(named)
     /\ UNCHANGED <<os, named, tmp, backups, gateway, stops, alone, apart>>

RenameTmp(s) ==
  LET i == tmp[saves[s].name]
  IN /\ saves[s].stage = "written" /\ i # None /\ To(s, "saved")
     /\ named' = i /\ tmp' = [tmp EXCEPT ![saves[s].name] = None]
     /\ text' = text /\ Had(i)
     /\ UNCHANGED <<os, backups, gateway, stops, alone, apart>>

(* writeFile or rename throws; the temporary name is removed. *)
FailWrite(s) ==
  /\ \/ saves[s].stage = "open"
     \/ saves[s].stage = "written" /\ tmp[saves[s].name] = None
  /\ To(s, "failed") /\ tmp' = [tmp EXCEPT ![saves[s].name] = None]
  /\ UNCHANGED <<os, text, named, backups, gateway, stops, had, alone, apart>>

ProvisioningNext ==
  \/ StartGateway \/ StopGateway
  \/ \E s \in Save, patch \in Patch : ReadForUpdate(s, patch) \/ RunSetupCommand(s, patch)
  \/ \E s \in Save :
       BackupEnvFile(s) \/ OpenTmp(s) \/ WriteTmp(s) \/ RenameTmp(s) \/ FailWrite(s)

ProvisioningSpec == ProvisioningInit /\ [][ProvisioningNext]_envVars

-----------------------------------------------------------------------------
ProvisioningTypeOK ==
  /\ os \in OsEnv /\ named \in Inode /\ tmp \in [Save -> Inode \cup {None}]
  /\ DOMAIN text = Inode /\ stops \in 0..MaxStops /\ alone \in BOOLEAN /\ apart \in BOOLEAN
  /\ \A s \in Save :
       /\ saves[s].stage \in {"idle", "read", "kept", "open", "written",
                              "saved", "failed", "refused", "lost"}
       /\ saves[s].name \in Save /\ saves[s].inode \in Inode

(* Neither a crash nor a failed write leaves the gateway without its
   environment: the file is whole unless two saves shared a temporary file,
   and unless they ran at once each text it ever had is it or in a backup. *)
EnvFileIsKept ==
  /\ apart => text[named] \notin {Empty, Mixture}
  /\ alone => had \subseteq {text[named]} \cup backups

(* What setup or the settings page wrote is an environment the gateway boots
   with, where it would boot with a default setup: the provider has what its
   adapter wants, no token is short or doubled, and every number parses.  The
   directories are the owner's to choose.  An LLM_BACKEND the process is
   started with stays, while the file forgets what it hangs on; a variable the
   process has set to nothing hides the one in the file; and headers of the
   process that do not parse are not read before a provider wants them.     *)
SavedSettingsBoot ==
  \A t \in had \ {text["first file"]} :
    /\ \A d \in SetupDirs : t[d] = "usable"
    /\ "LLM_BACKEND" \notin DOMAIN os /\ ParsesHeaders(os)
    /\ DOMAIN t \cap DOMAIN os \subseteq Present(os)
    /\ Boots(LoadEnvFile(os, RenderSetupEnvFile(ConfigFromEnv(<<>>))), World)
    => Boots(LoadEnvFile(os, t), World)
=============================================================================
