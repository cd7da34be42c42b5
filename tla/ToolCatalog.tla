---------------------------- MODULE ToolCatalog ----------------------------
(***************************************************************************)
(* The explicit tool requests BLUE-TANUKI can route, with the capability   *)
(* envelope each of them is given (TOOL_SPECS of action_router.ts).  A     *)
(* capability keeps its source spelling; the prefixes the code tests for   *)
(* ("secrets:", "google:", "github:", "network:") are the sets of the      *)
(* catalogue's capabilities that start with them.                          *)
(***************************************************************************)
EXTENDS Naturals

(* allowed_capabilities of every entry of TOOL_SPECS. *)
ToolCaps ==
  [ echo              |-> {"tool:echo"},
    file_search       |-> {"tool:file.search", "fs:read"},
    file_write        |-> {"tool:file.write", "fs:write"},
    file_edit         |-> {"tool:file.edit", "fs:read", "fs:write"},
    http_fetch        |-> {"tool:http.fetch", "network:http"},
    web_search        |-> {"tool:web.search", "network:http"},
    github_read       |-> {"tool:github.read", "network:github.com"},
    github_write      |-> {"tool:github.write", "network:github.com",
                           "secrets:GITHUB_TOKEN", "github:issue.write",
                           "github:pr.write", "github:comment.write"},
    gmail_read        |-> {"tool:gmail.read", "network:googleapis.com",
                           "secrets:GMAIL_ACCESS_TOKEN",
                           "secrets:GOOGLE_ACCESS_TOKEN", "google:gmail.read"},
    calendar_read     |-> {"tool:google.calendar.read", "network:googleapis.com",
                           "secrets:GOOGLE_CALENDAR_ACCESS_TOKEN",
                           "secrets:GOOGLE_ACCESS_TOKEN", "google:calendar.read"},
    drive_read        |-> {"tool:google.drive.read", "network:googleapis.com",
                           "secrets:GOOGLE_DRIVE_ACCESS_TOKEN",
                           "secrets:GOOGLE_ACCESS_TOKEN", "google:drive.read"},
    gmail_write       |-> {"tool:gmail.write", "network:googleapis.com",
                           "secrets:GMAIL_ACCESS_TOKEN",
                           "secrets:GOOGLE_ACCESS_TOKEN", "google:gmail.write",
                           "external:send", "email:send"},
    calendar_write    |-> {"tool:google.calendar.write", "network:googleapis.com",
                           "secrets:GOOGLE_CALENDAR_ACCESS_TOKEN",
                           "secrets:GOOGLE_ACCESS_TOKEN", "google:calendar.write"},
    drive_write       |-> {"tool:google.drive.write", "network:googleapis.com",
                           "secrets:GOOGLE_DRIVE_ACCESS_TOKEN",
                           "secrets:GOOGLE_ACCESS_TOKEN", "google:drive.write"},
    browser_read      |-> {"tool:browser.read", "network:http"},
    browser_snapshot  |-> {"tool:browser.snapshot", "browser:snapshot", "network:http"},
    browser_automation |-> {"tool:browser.automation", "browser:act", "network:http"},
    shell_exec        |-> {"tool:shell.exec", "shell:exec"},
    schedule_list     |-> {"tool:schedule.list", "schedule:read"},
    schedule_create   |-> {"tool:schedule.create", "schedule:create"},
    schedule_update   |-> {"tool:schedule.update", "schedule:update"},
    schedule_delete   |-> {"tool:schedule.delete", "schedule:delete"} ]

Tool == DOMAIN ToolCaps

(* timeout_ms of every entry of TOOL_SPECS. *)
ToolTimeout ==
  [ t \in Tool |->
      CASE t \in {"echo", "schedule_list", "schedule_create",
                  "schedule_update", "schedule_delete"} -> 5000
        [] t = "file_search" -> 10000
        [] OTHER -> 15000 ]

Capability == UNION {ToolCaps[t] : t \in Tool} \cup {"channel:send"}

SecretsCaps == {"secrets:GITHUB_TOKEN", "secrets:GMAIL_ACCESS_TOKEN",
                "secrets:GOOGLE_ACCESS_TOKEN", "secrets:GOOGLE_CALENDAR_ACCESS_TOKEN",
                "secrets:GOOGLE_DRIVE_ACCESS_TOKEN"}
GoogleCaps  == {"google:gmail.read", "google:calendar.read", "google:drive.read",
                "google:gmail.write", "google:calendar.write", "google:drive.write"}
GithubCaps  == {"github:issue.write", "github:pr.write", "github:comment.write"}
NetworkCaps == {"network:http", "network:github.com", "network:googleapis.com"}

ScheduleMutationTools == {"schedule_create", "schedule_update", "schedule_delete"}
=============================================================================
