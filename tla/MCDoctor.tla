------------------------------ MODULE MCDoctor ------------------------------
(***************************************************************************)
(* An operator edits the environment one variable at a time, runs the      *)
(* doctor, and deploys what it lets pass.                                  *)
(***************************************************************************)
EXTENDS Doctor

VARIABLES env, code

Installation ==
  [ node |-> TRUE, root |-> TRUE, core_release |-> FALSE, chain |-> TRUE, schedules |-> TRUE,
    port_free |-> TRUE,
    packages |-> [p \in CorePackage \cup PreviewPackage |-> "valid"],
    matrix |-> [c \in CoreChannel \cup PreviewChannel \cup {"whatsapp"} |-> ChannelStatus(c)],
    wildcard |-> {}, whatsapp_adapter |-> FALSE,
    surfaces |-> [runbook |-> [text |-> "complete", optional |-> FALSE]] ]

(* The rows and the default of the example in docs/runbook.md, with its
   variable set, and some of what else may be edited. *)
Edit ==
  { "LLM_PROVIDERS_JSON" :> "keyed", "LOCAL_LLM_API_KEY" :> "given",
    "LLM_BACKEND" :> "local-fast", "WEBCHAT_PORT" :> "out_of_range",
    "WEBHOOK_TOKEN" :> "first", "BLUE_TANUKI_SETTINGS_TOKEN" :> "plain",
    "BLUE_TANUKI_AUDIT_DIR" :> "usable" }

Unrun == 9

Init == env = "WEBCHAT_TOKEN" :> "first" @@ "WEBCHAT_RESUME_TOKEN" :> "second" /\ code = Unrun

EditEnvironment == \E edit \in Edit : env' = edit @@ env /\ env' # env /\ code' = Unrun

RunTheDoctor ==
  /\ code = Unrun /\ UNCHANGED env
  /\ LET report == RunDoctor(env, Installation, "core")
     IN Reports(report) /\ code' = ExitCode(report)

Spec == Init /\ [][EditEnvironment \/ RunTheDoctor]_<<env, code>>

(* docs/runbook.md says the doctor validates the consistency of the settings
   and of the permissions they need, doctor.ts that an exit code below 2 does
   not block serve: the gateway boots with what the doctor lets pass.       *)
DoctorClears == code < 2 => Boots(env, Installation)
=============================================================================
