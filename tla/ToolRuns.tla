------------------------------ MODULE ToolRuns ------------------------------
(***************************************************************************)
(* What a tool does between Tool.invoke and the settling of its promise    *)
(* (packages/blue-tanuki/src/tools): the checks of ToolChecks, what it     *)
(* touches (a file, a child process, a host on the network, a mutation of  *)
(* a remote service) and what its error says of a mutation.  Texts and     *)
(* response bodies are abstracted to what the tool makes of them.          *)
(* An invocation is never cancelled: its steps go on after the executor    *)
(* has given up on it.                                                     *)
(***************************************************************************)
EXTENDS Naturals, FiniteSets, ToolCatalog, ToolChecks

CONSTANTS Cmd,            \* command ids
          Offered,        \* the tools an instance calls
          RedirectLimit   \* HTTP_REDIRECT_LIMIT

ASSUME ToolRunsAssumption == Offered \subseteq Tool /\ RedirectLimit \in Nat

VARIABLES run,       \* per command: the invocation, running or settled
          file,      \* the text in the one file the file tools are asked about
          applied,   \* per command: how often a service performed its mutation
          reached    \* per command: the addresses and the places it has been to,
                     \* and whether the way there had been changed under it

toolVars == <<run, file, applied, reached>>

-----------------------------------------------------------------------------
(* The registry: what each tool says it needs.                              *)

BuiltinCaps ==
  [ file_search        |-> {"tool:file.search", "fs:read"},
    file_write         |-> {"tool:file.write", "fs:write"},
    file_edit          |-> {"tool:file.edit", "fs:read", "fs:write"},
    http_fetch         |-> {"tool:http.fetch", "network:http"},
    web_search         |-> {"tool:web.search", "network:http"},
    github_read        |-> {"tool:github.read", "network:github.com"},
    github_write       |-> {"tool:github.write", "network:github.com", "secrets:GITHUB_TOKEN",
                            "github:issue.write", "github:pr.write", "github:comment.write"},
    browser_read       |-> {"tool:browser.read", "network:http"},
    browser_snapshot   |-> {"tool:browser.snapshot", "browser:snapshot", "network:http"},
    browser_automation |-> {"tool:browser.automation", "browser:act", "network:http"},
    shell_exec         |-> {"tool:shell.exec", "shell:exec"} ]

GoogleCapsOf(tool, service, own) ==
  {tool, "network:googleapis.com", own, "secrets:GOOGLE_ACCESS_TOKEN", service}

GoogleReadCaps ==
  [ gmail_read    |-> GoogleCapsOf("tool:gmail.read", "google:gmail.read", "secrets:GMAIL_ACCESS_TOKEN"),
    calendar_read |-> GoogleCapsOf("tool:google.calendar.read", "google:calendar.read",
                                   "secrets:GOOGLE_CALENDAR_ACCESS_TOKEN"),
    drive_read    |-> GoogleCapsOf("tool:google.drive.read", "google:drive.read",
                                   "secrets:GOOGLE_DRIVE_ACCESS_TOKEN") ]

GoogleWriteCaps ==
  [ gmail_write    |-> GoogleCapsOf("tool:gmail.write", "google:gmail.write", "secrets:GMAIL_ACCESS_TOKEN")
                         \cup {"external:send", "email:send"},
    calendar_write |-> GoogleCapsOf("tool:google.calendar.write", "google:calendar.write",
                                    "secrets:GOOGLE_CALENDAR_ACCESS_TOKEN"),
    drive_write    |-> GoogleCapsOf("tool:google.drive.write", "google:drive.write",
                                    "secrets:GOOGLE_DRIVE_ACCESS_TOKEN") ]

EchoCaps == [echo |-> {"tool:echo"}]

ScheduleToolCaps ==
  [ schedule_list   |-> {"tool:schedule.list", "schedule:read"},
    schedule_create |-> {"tool:schedule.create", "schedule:create"},
    schedule_update |-> {"tool:schedule.update", "schedule:update"},
    schedule_delete |-> {"tool:schedule.delete", "schedule:delete"} ]

RegisteredTools == DOMAIN EchoCaps \cup DOMAIN BuiltinCaps \cup DOMAIN GoogleReadCaps
                     \cup DOMAIN GoogleWriteCaps \cup DOMAIN ScheduleToolCaps

RequiredCaps(t) ==
  CASE t \in DOMAIN EchoCaps        -> EchoCaps[t]
    [] t \in DOMAIN BuiltinCaps     -> BuiltinCaps[t]
    [] t \in DOMAIN GoogleReadCaps  -> GoogleReadCaps[t]
    [] t \in DOMAIN GoogleWriteCaps -> GoogleWriteCaps[t]
    [] OTHER                        -> ScheduleToolCaps[t]

-----------------------------------------------------------------------------
(* Kinds of tools.                                                          *)

Fetches     == {"http_fetch", "web_search", "browser_read"}
Previews    == {"browser_snapshot", "browser_automation"}
GoogleReads == DOMAIN GoogleReadCaps
Mutators    == {"github_write"} \cup DOMAIN GoogleWriteCaps

(* What a settled promise says: its value, or of its error what the text
   claims of a mutation: nothing, before anything was touched ("invalid") or
   after ("lost"), mutation_sent=false ("unsent") or
   mutation_status=not_confirmed ("unconfirmed"). *)
Outcome == {"ok", "invalid", "unsent", "unconfirmed", "lost"}

Base == "base"                     \* the text the file starts with
Text == Cmd \cup {Base}

(* way is where the path in hand leads by now, moved whether that has been
   changed since the invocation first looked at it. *)
NoRun == [tool |-> "none", pc |-> "idle", hops |-> 0, host |-> "none", text |-> {},
          way |-> "inside", moved |-> FALSE, inFlight |-> FALSE, out |-> "none"]

(* Where a path has been looked at and is yet to be used. *)
OnTheWay == {"parent", "checked", "edit", "found", "entry", "link", "cwd"}

Stage == {"idle", "start", "walk", "write", "resolve", "resolved", "await", "answered",
          "details", "page", "child", "settled"} \cup OnTheWay

Invocation ==
  [tool : Tool \cup {"none"}, hops : 0..RedirectLimit,
   host : Address \cup {"none"}, text : SUBSET Text, way : Place, moved : BOOLEAN,
   pc : Stage, inFlight : BOOLEAN, out : Outcome \cup {"none"}]

Visit == [to : Address \cup Place, moved : BOOLEAN]

ToolInit ==
  /\ run = [c \in Cmd |-> NoRun]
  /\ file \in {[there |-> FALSE, text |-> {}], [there |-> TRUE, text |-> {Base}]}
  /\ applied = [c \in Cmd |-> 0]
  /\ reached = [c \in Cmd |-> {}]

At(c, pc, tools) == run[c].pc = pc /\ run[c].tool \in tools
Goes(c, pc)      == run' = [run EXCEPT ![c].pc = pc]
Settles(c, out)  == run' = [run EXCEPT ![c].pc = "settled", ![c].out = out]
Rest             == UNCHANGED <<file, applied, reached>>

Visits(c, to, moved) == reached' = [reached EXCEPT ![c] = @ \cup {[to |-> to, moved |-> moved]}]
FollowsPath(c)       == Visits(c, run[c].way, run[c].moved)

(* A path that has just been looked at. *)
SetsOut(c, pc, leads) ==
  run' = [run EXCEPT ![c].pc = pc, ![c].way = leads, ![c].moved = FALSE]

Passes(checks)     == Says(checks) = "pass"
Refused(c, checks) == ~Passes(checks) /\ Settles(c, Says(checks)) /\ Rest

-----------------------------------------------------------------------------
Invoke(c, t) ==
  /\ run[c].pc = "idle"
  /\ run' = [run EXCEPT ![c] = [NoRun EXCEPT !.tool = t, !.pc = "start"]]
  /\ Rest

Echo(c) ==
  /\ At(c, "start", {"echo"})
  /\ Settles(c, "ok")
  /\ Rest

(* The schedule tools answer, or throw on their arguments; what they change
   is RuntimeSchedules. *)
ScheduleTool(c) ==
  /\ At(c, "start", DOMAIN ScheduleToolCaps)
  /\ \E out \in {"ok", "invalid"} : Settles(c, out)
  /\ Rest

-----------------------------------------------------------------------------
(* The file tools and shell.exec. *)

(* Between any two looks at a path, and between the last one and its use,
   another program may have put a link or another file on it. *)
Relink(c) ==
  /\ run[c].pc \in OnTheWay
  /\ \E leads \in Place : run' = [run EXCEPT ![c].way = leads, ![c].moved = TRUE]
  /\ file' \in [there : BOOLEAN, text : {{}, {Base}}]
  /\ UNCHANGED <<applied, reached>>

FileSearch(c) ==
  /\ At(c, "start", {"file_search"})
  /\ \E root \in RootSetting, p \in Path, args \in SUBSET {"root", "query", "misfit"} :
       LET checks == FileSearchChecks(root, p, args)
       IN \/ Refused(c, checks)
          \/ Passes(checks) /\ SetsOut(c, "found", p.leads) /\ Rest

(* readdir has named the next entry, and said what it is. *)
Walk(c) ==
  /\ At(c, "walk", {"file_search"})
  /\ \E entry \in Entry : /\ ~WalkSkips(entry)
                         /\ SetsOut(c, IF entry.kind = "symlink" THEN "link" ELSE "entry", entry.leads)
  /\ Rest

(* realpath of the entry.  What readdir called a link is neither read nor
   walked. *)
WalkResolves(c) ==
  /\ At(c, "entry", {"file_search"}) \/ At(c, "link", {"file_search"})
  /\ \/ Settles(c, "lost")
     \/ WalkThrows(run[c].way) /\ Settles(c, "invalid")
     \/ ~WalkThrows(run[c].way) /\ Goes(c, IF run[c].pc = "entry" THEN "found" ELSE "walk")
  /\ Rest

(* A directory is listed, a file is read. *)
WalkVisits(c) ==
  /\ At(c, "found", {"file_search"})
  /\ Goes(c, "walk") /\ FollowsPath(c)
  /\ UNCHANGED <<file, applied>>

(* With enough matches the search ends before it reads what it found. *)
WalkEnds(c) ==
  /\ At(c, "walk", {"file_search"}) \/ At(c, "found", {"file_search"})
  /\ \E out \in {"ok", "lost"} : Settles(c, out)
  /\ Rest

ResolvesParent(c) ==
  /\ At(c, "start", {"file_write", "file_edit"})
  /\ \E root \in RootSetting, p \in Path, args \in SUBSET {"path"} :
       LET checks == ParentChecks(root, p, args)
       IN \/ Refused(c, checks)
          \/ Passes(checks) /\ SetsOut(c, "parent", p.leads) /\ Rest

ResolvesFile(c) ==
  /\ At(c, "parent", {"file_write", "file_edit"})
  /\ LET names == IF run[c].tool = "file_write" THEN {"content"} ELSE {"search", "replace"}
     IN \E kind \in Kind, args \in SUBSET (names \cup {"misfit"}) :
          LET checks == FileChecks(kind, run[c].way, file.there, names, args)
          IN \/ Refused(c, checks)
             \/ Passes(checks) /\ Goes(c, "checked") /\ Rest

(* An error of the file system: the parent or the file is gone or no file,
   or the one to create is there. *)
FileFails(c) ==
  /\ At(c, "parent", {"file_write", "file_edit"}) \/ At(c, "checked", {"file_write", "file_edit"})
       \/ At(c, "edit", {"file_edit"})
  /\ Settles(c, "lost")
  /\ Rest

(* fs.writeFile empties the file when it opens it to write. *)
OpenToWrite(c, text) ==
  /\ file' = [there |-> TRUE, text |-> {}]
  /\ run'  = [run EXCEPT ![c].pc = "write", ![c].text = text]

(* The path that was resolved is opened by its name. *)
FileWrite(c) ==
  /\ At(c, "checked", {"file_write"})
  /\ \/ OpenToWrite(c, {c})                                      \* create, overwrite
     \/ /\ file' = [there |-> TRUE, text |-> file.text \cup {c}] \* append
        /\ Settles(c, "ok")
  /\ FollowsPath(c)
  /\ UNCHANGED applied

(* file.edit reads the file and counts, and writes what it made of the text
   it read one await later, to the same name. *)
FileEdit(c) ==
  /\ At(c, "checked", {"file_edit"}) /\ file.there
  /\ \/ Settles(c, "invalid")           \* binary, too long, or not as many as expected
     \/ \E search \in file.text :
          run' = [run EXCEPT ![c].pc = "edit", ![c].text = (file.text \ {search}) \cup {c}]
  /\ FollowsPath(c)
  /\ UNCHANGED <<file, applied>>

EditOpens(c) ==
  /\ At(c, "edit", {"file_edit"})
  /\ OpenToWrite(c, run[c].text)
  /\ FollowsPath(c)
  /\ UNCHANGED applied

WriteEnds(c) ==
  /\ At(c, "write", {"file_write", "file_edit"})
  /\ \/ Settles(c, "ok") /\ file' = [file EXCEPT !.text = run[c].text]
     \/ Settles(c, "lost") /\ UNCHANGED file
  /\ UNCHANGED <<applied, reached>>

ShellExec(c) ==
  /\ At(c, "start", {"shell_exec"})
  /\ \E root \in RootSetting, p \in Path, args \in SUBSET {"cmd", "misfit"} :
       LET checks == ShellExecChecks(root, p, args)
       IN \/ Refused(c, checks)
          \/ Passes(checks) /\ SetsOut(c, "cwd", p.leads) /\ Rest

(* The child starts in its directory.  Where it goes from there nobody
   bounds: it is not in reached. *)
ChildStarts(c) ==
  /\ At(c, "cwd", {"shell_exec"})
  /\ Goes(c, "child") /\ FollowsPath(c)
  /\ UNCHANGED <<file, applied>>

(* The child closes, fails to start, or is killed by the tool's own timer,
   which is a value and no error. *)
ChildEnds(c) ==
  /\ At(c, "child", {"shell_exec"})
  /\ \E out \in {"ok", "lost"} : Settles(c, out)
  /\ Rest

-----------------------------------------------------------------------------
(* Fetches. *)

FetchArgs == SUBSET {"url", "misfit"}

HttpFetch(c) ==
  /\ At(c, "start", {"http_fetch", "browser_read"})
  /\ \E args \in FetchArgs :
       LET checks == <<Needs({"url"}, args), Fits(args)>>
       IN \/ Refused(c, checks)
          \/ Passes(checks) /\ Goes(c, "resolve") /\ Rest

WebSearch(c) ==
  /\ At(c, "start", {"web_search"})
  /\ \E args \in SUBSET {"query", "misfit"}, endpoint \in {"unset", "blank", "url"} :
       LET checks == <<Needs({"query"}, args), Fits(args), WebSearchEndpoint(endpoint)>>
       IN \/ Refused(c, checks)
          \/ Passes(checks) /\ Goes(c, "resolve") /\ Rest

BrowserSnapshot(c) ==
  /\ At(c, "start", {"browser_snapshot"})
  /\ \E args \in SUBSET {"url", "misfit", "credentials"}, switch \in BOOLEAN :
       LET checks == BrowserSnapshotChecks(switch, args)
       IN \/ Refused(c, checks)
          \/ Passes(checks) /\ Goes(c, "resolve") /\ Rest

(* The action smoke answers whether or not the preview is on. *)
BrowserAutomation(c) ==
  /\ At(c, "start", {"browser_automation"})
  /\ \E args \in SUBSET {"url", "misfit", "credentials"}, switch \in BOOLEAN, action \in BrowserAction :
       LET checks == BrowserAutomationChecks(action, switch, args)
       IN \/ action = "smoke" /\ Settles(c, "ok") /\ Rest
          \/ action # "smoke" /\ Refused(c, checks)
          \/ action # "smoke" /\ Passes(checks) /\ Goes(c, "resolve") /\ Rest

(* resolvePublicTarget, before every request of a fetch and before a page. *)
Resolve(c) ==
  /\ At(c, "resolve", Fetches \cup Previews)
  /\ \E u \in Url, listing \in BOOLEAN, answer \in Answer :
       LET checks == TargetChecks(u, listing, answer)
       IN \/ Refused(c, checks)
          \/ /\ Passes(checks)
             /\ \E first \in answer :
                  run' = [run EXCEPT ![c].host = first,
                            ![c].pc = IF run[c].tool \in Previews THEN "page" ELSE "resolved"]
             /\ Rest

(* The request is pinned to the address that was checked. *)
Connect(c) ==
  /\ At(c, "resolved", Fetches)
  /\ Visits(c, run[c].host, FALSE)
  /\ Goes(c, "await")
  /\ UNCHANGED <<file, applied>>

(* Its answer, or an error: of the connection, or of silence for 15 s. *)
FetchAnswered(c) ==
  /\ At(c, "await", Fetches)
  /\ Goes(c, "answered") \/ Settles(c, "lost")
  /\ Rest

(* A redirect is followed from the start, checks included, RedirectLimit
   times at most. *)
Redirect(c) ==
  /\ At(c, "answered", Fetches)
  /\ IF run[c].hops >= RedirectLimit
       THEN Settles(c, "invalid")
       ELSE run' = [run EXCEPT ![c].pc = "resolve", ![c].hops = @ + 1]
  /\ Rest

(* http.fetch returns whatever status it got. *)
FetchEnds(c) ==
  /\ At(c, "answered", {"http_fetch"})
  /\ Settles(c, "ok")
  /\ Rest

(* The other two throw unless the status is one of success. *)
WebSearchEnds(c) ==
  /\ At(c, "answered", {"web_search"})
  /\ \E out \in {"ok", "lost"} : Settles(c, out)
  /\ Rest

BrowserReadEnds(c) ==
  /\ At(c, "answered", {"browser_read"})
  /\ \E out \in {"ok", "lost"} : Settles(c, out)
  /\ Rest

(* A preview: the engine is not there (mutation_sent=false), the page fails,
   its final address is refused, or it is read.  The browser looks names up
   by itself: where it connects to is not in reached. *)
PageEnds(c) ==
  /\ At(c, "page", Previews)
  /\ \E out \in {"ok", "unsent", "lost", "invalid"} : Settles(c, out)
  /\ Rest

-----------------------------------------------------------------------------
(* The APIs of GitHub and Google: reads. *)

GithubRead(c) ==
  /\ At(c, "start", {"github_read"})
  /\ \E resource \in GithubResource, args \in SUBSET {"owner", "repo", "number", "misfit"} :
       LET checks == GithubPath(resource, args)
       IN \/ Refused(c, checks)
          \/ Passes(checks) /\ Goes(c, "await") /\ Rest

GithubReadEnds(c) ==
  /\ At(c, "await", {"github_read"})
  /\ \E out \in {"ok", "lost"} : Settles(c, out)
  /\ Rest

GoogleRead(c, tool) ==
  /\ At(c, "start", {tool})
  /\ \E args \in SUBSET {"misfit"}, token \in BOOLEAN :
       LET checks == GoogleReadChecks(args, token)
       IN \/ Refused(c, checks)
          \/ Passes(checks) /\ Goes(c, "await") /\ Rest

(* An answer that is none, or none in JSON, and the timeout say
   mutation_sent=false; a broken connection says nothing. *)
GoogleFails(c) == Settles(c, "unsent") \/ Settles(c, "lost")

(* gmail.read lists the messages, and then asks for each of them. *)
GmailReadEnds(c) ==
  /\ \/ At(c, "await", {"gmail_read"}) /\ (Goes(c, "details") \/ GoogleFails(c))
     \/ At(c, "details", {"gmail_read"}) /\ (Settles(c, "ok") \/ GoogleFails(c))
  /\ Rest

CalendarReadEnds(c) ==
  /\ At(c, "await", {"calendar_read"})
  /\ Settles(c, "ok") \/ GoogleFails(c)
  /\ Rest

DriveReadEnds(c) ==
  /\ At(c, "await", {"drive_read"})
  /\ Settles(c, "ok") \/ GoogleFails(c)
  /\ Rest

-----------------------------------------------------------------------------
(* Writes: one request each, after all the checks, and never again. *)

SendsOnce(c, checks) ==
  \/ Refused(c, checks)
  \/ /\ Passes(checks)
     /\ run' = [run EXCEPT ![c].pc = "await", ![c].inFlight = TRUE]
     /\ Rest

GithubWrite(c) ==
  /\ At(c, "start", {"github_write"})
  /\ \E operation \in GithubOperation, repos \in GithubRepos, token \in BOOLEAN,
        args \in SUBSET {"owner", "repo", "title", "body", "number", "branches", "misfit"} :
       SendsOnce(c, GithubWriteChecks(operation, args, repos, token))

GmailWrite(c) ==
  /\ At(c, "start", {"gmail_write"})
  /\ \E operation \in GmailOperation, token \in BOOLEAN,
        args \in SUBSET {"to", "subject", "draft_id", "broken_to", "broken_header", "misfit"} :
       SendsOnce(c, GmailWriteChecks(operation, args, token))

CalendarWrite(c) ==
  /\ At(c, "start", {"calendar_write"})
  /\ \E operation \in CalendarOperation, token \in BOOLEAN,
        args \in SUBSET {"event_id", "summary", "times", "attendees", "misfit"} :
       SendsOnce(c, CalendarWriteChecks(operation, args, token))

DriveWrite(c) ==
  /\ At(c, "start", {"drive_write"})
  /\ \E operation \in DriveOperation, token \in BOOLEAN,
        args \in SUBSET {"file_id", "name", "content", "oversized", "misfit"} :
       SendsOnce(c, DriveWriteChecks(operation, args, token))

(* The service performs it, whether or not anybody still waits. *)
Perform(c) ==
  /\ run[c].inFlight
  /\ applied' = [applied EXCEPT ![c] = @ + 1]
  /\ run' = [run EXCEPT ![c].inFlight = FALSE]
  /\ UNCHANGED <<file, reached>>

(* A 2xx answer confirms the mutation; any other answer, and the timeout of
   the request, leave it unconfirmed; a broken connection is an error of its
   own, which says nothing. *)
GithubWriteEnds(c) ==
  /\ At(c, "await", {"github_write"})
  /\ \/ applied[c] > 0 /\ Settles(c, "ok")
     \/ Settles(c, "unconfirmed")
     \/ Settles(c, "lost")
  /\ Rest

(* To a Google tool a 2xx answer that does not parse confirms nothing. *)
GoogleWriteUnconfirmed(c) == Settles(c, "unconfirmed")

MutationResult(c) ==
  applied[c] > 0 /\ (Settles(c, "ok") \/ GoogleWriteUnconfirmed(c))

(* Defective: a request that never left is reported as done. *)
GoogleWriteEndsUnsent(c) ==
  /\ At(c, "await", DOMAIN GoogleWriteCaps)
  /\ MutationResult(c) \/ Settles(c, "unsent") \/ Settles(c, "lost")
  /\ Rest

GoogleWriteEnds(c) ==
  /\ At(c, "await", DOMAIN GoogleWriteCaps)
  /\ MutationResult(c) \/ GoogleWriteUnconfirmed(c) \/ Settles(c, "lost")
  /\ Rest

ToolStep(c) ==
  \/ Echo(c) \/ ScheduleTool(c)
  \/ Relink(c)
  \/ FileSearch(c) \/ Walk(c) \/ WalkResolves(c) \/ WalkVisits(c) \/ WalkEnds(c)
  \/ ResolvesParent(c) \/ ResolvesFile(c) \/ FileFails(c)
  \/ FileWrite(c) \/ FileEdit(c) \/ EditOpens(c) \/ WriteEnds(c)
  \/ ShellExec(c) \/ ChildStarts(c) \/ ChildEnds(c)
  \/ HttpFetch(c) \/ WebSearch(c) \/ BrowserSnapshot(c) \/ BrowserAutomation(c)
  \/ Resolve(c) \/ Connect(c) \/ FetchAnswered(c) \/ Redirect(c)
  \/ FetchEnds(c) \/ WebSearchEnds(c) \/ BrowserReadEnds(c) \/ PageEnds(c)
  \/ GithubRead(c) \/ GithubReadEnds(c)
  \/ \E tool \in GoogleReads : GoogleRead(c, tool)
  \/ GmailReadEnds(c) \/ CalendarReadEnds(c) \/ DriveReadEnds(c)
  \/ GithubWrite(c) \/ GmailWrite(c) \/ CalendarWrite(c) \/ DriveWrite(c)
  \/ Perform(c) \/ GithubWriteEnds(c) \/ GoogleWriteEnds(c)
=============================================================================
