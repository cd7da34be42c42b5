----------------------------- MODULE ToolChecks -----------------------------
(***************************************************************************)
(* What the tools ask of their arguments and of the environment before     *)
(* they touch anything (packages/blue-tanuki/src/tools).  args is the set  *)
(* of the arguments that are given and well-formed; "misfit" is an         *)
(* optional one that is given and is not.  The checks of a tool are a      *)
(* sequence, in the order of the code, of pairs: does it pass, and what    *)
(* does its error say of a mutation?  An error of an "invalid" one says    *)
(* nothing, one of an "unsent" one says mutation_sent=false.               *)
(***************************************************************************)
EXTENDS Naturals, Sequences

Needs(names, args) == <<names \subseteq args, "invalid">>
Fits(args)         == <<"misfit" \notin args, "invalid">>

(* The first check that fails throws. *)
Says(checks) ==
  IF \A i \in DOMAIN checks : checks[i][1] THEN "pass"
  ELSE checks[CHOOSE i \in DOMAIN checks :
                ~checks[i][1] /\ \A j \in 1..(i - 1) : checks[j][1]][2]

-----------------------------------------------------------------------------
(* Paths.  named is where path.resolve puts the argument, leads where the
   links of the file system take it; for a file to write, leads is about its
   parent.  "regular" is a file that is there or not. *)
Place == {"inside", "secret", "outside"}
Kind  == {"regular", "dir", "symlink"}
Path  == [named : Place, leads : Place, kind : Kind]

RootSetting == {"unset", "no_directory", "directory"}

SandboxRootFromEnv(root) == <<root = "directory", "invalid">>
ShellRootFromEnv(root)   == <<root = "directory", "invalid">>

ResolveFileSearchRoot(p) == <<p.named = "inside" /\ p.leads = "inside", "invalid">>
ResolveShellCwd(p)       ==
  <<p.named # "outside" /\ p.leads # "outside" /\ p.kind = "dir", "invalid">>

(* Defective: where the links lead is not asked. *)
NameOfParent(p) == <<p.named = "inside", "invalid">>

(* resolveSandboxFilePath looks at the parent first, and one await later at
   the file itself, which is resolved once more if it is there. *)
ResolveParent(p)                == <<p.named = "inside" /\ p.leads # "outside", "invalid">>
ResolveFile(kind, leads, there) ==
  <<kind # "symlink" /\ (there => leads # "outside"), "invalid">>

FileSearchChecks(root, p, args) ==
  <<SandboxRootFromEnv(root), Needs({"root"}, args), ResolveFileSearchRoot(p),
    Needs({"query"}, args), Fits(args), <<p.kind = "dir", "invalid">> >>

ParentChecks(root, p, args) ==
  <<SandboxRootFromEnv(root), Needs({"path"}, args), ResolveParent(p)>>

FileChecks(kind, leads, there, names, args) ==
  <<ResolveFile(kind, leads, there), Needs(names, args), Fits(args)>>

ShellExecChecks(root, p, args) ==
  <<ShellRootFromEnv(root), ResolveShellCwd(p), Needs({"cmd"}, args), Fits(args)>>

(* What is found in a directory inside: only a link leads elsewhere. *)
Entry == {e \in Path : e.named # "outside" /\ (e.kind # "symlink" => e.leads = e.named)}

(* walkFiles passes over names that look secret; an entry that leads out of
   the sandbox throws. *)
WalkSkips(entry)  == entry.named = "secret"
WalkThrows(leads) == leads = "outside"

-----------------------------------------------------------------------------
(* Hosts and addresses. *)
Url == [http : BOOLEAN, credentials : BOOLEAN, host : {"localhost", "listed", "unlisted"}]

Address == {"public", "mapped_public", "blocked", "mapped_blocked", "misdeclared"}

ParseHttpUrl(u)                  == <<u.http /\ ~u.credentials, "invalid">>
HostnameFor(u)                   == <<u.host # "localhost", "invalid">>
EnforceHttpAllowlist(u, listing) == <<listing => u.host = "listed", "invalid">>

(* What a lookup answers; one of each kind, and a pair of them. *)
Answer == {{a, b} : a, b \in Address} \cup {{}}

(* An IPv4 address in an IPv6 one is judged as the IPv4 address it is. *)
AssertPublicAddress(a) == a \in {"public", "mapped_public"}

(* Defective: one public address is enough. *)
AcceptedByOne(answer) == \E a \in answer : AssertPublicAddress(a)

Accepted(answer)      == answer # {} /\ \A a \in answer : AssertPublicAddress(a)

(* resolvePublicTarget: every address of the name must be public; the first
   becomes the target. *)
TargetChecks(u, listing, answer) ==
  <<ParseHttpUrl(u), HostnameFor(u), EnforceHttpAllowlist(u, listing),
    <<Accepted(answer), "invalid">> >>

WebSearchEndpoint(endpoint) == <<endpoint = "url", "invalid">>    \* "unset", "blank", "url"

(* The preview switch, the arguments that would lend credentials to the
   browser, and the actions that are in quarantine. *)
BrowserAutomationEnabled(switch)  == <<switch, "unsent">>
AssertNoBrowserCredentialUse(args) == <<"credentials" \notin args, "unsent">>

BrowserSnapshotChecks(switch, args) ==
  <<BrowserAutomationEnabled(switch), AssertNoBrowserCredentialUse(args),
    Needs({"url"}, args), Fits(args)>>

BrowserAction == {"smoke", "navigate", "click", "form_submit", "download", "upload", "other"}

BrowserAutomationChecks(action, switch, args) ==
  <<  <<action # "other", "invalid">>, BrowserAutomationEnabled(switch),
      AssertNoBrowserCredentialUse(args), <<action = "navigate", "unsent">> >>
    \o BrowserSnapshotChecks(switch, args)

-----------------------------------------------------------------------------
(* github.read and github.write. *)
GithubPath(resource, args) ==
  << Fits(args), Needs({"owner", "repo"}, args),
     CASE resource \in {"issue", "pr"}   -> Needs({"number"}, args)
       [] resource \in {"issues", "prs"} -> Fits(args)
       [] OTHER                          -> <<resource = "repo", "invalid">> >>

GithubResource == {"repo", "issue", "issues", "pr", "prs", "other"}

GithubOperation == {"issue.create", "issue.comment.create", "pr.comment.create",
                    "issue.update", "pr.create", "other"}

GithubWriteRoute(operation, args) ==
  << Needs({"owner", "repo"}, args),
     CASE operation = "issue.create" -> Needs({"title"}, args)
       [] operation \in {"issue.comment.create", "pr.comment.create"} -> Needs({"number", "body"}, args)
       [] operation = "issue.update" -> <<"number" \in args /\ args \cap {"title", "body"} # {}, "invalid">>
       [] operation = "pr.create"    -> Needs({"title", "branches"}, args)
       [] OTHER                      -> <<FALSE, "invalid">> >>

GithubRepos == {"unset", "malformed", "others", "listed"}     \* BLUE_TANUKI_GITHUB_REPOS
AssertGitHubRepoAllowed(repos) == <<repos = "listed", "unsent">>
GithubWriteToken(token)        == <<token, "unsent">>

GithubWriteChecks(operation, args, repos, token) ==
  <<Fits(args)>> \o GithubWriteRoute(operation, args)
    \o <<AssertGitHubRepoAllowed(repos), GithubWriteToken(token)>>

-----------------------------------------------------------------------------
(* The Google tools. *)
GoogleReadToken(token)  == <<token, "unsent">>
GoogleWriteToken(token) == <<token, "unsent">>

GoogleReadChecks(args, token) == <<Fits(args), GoogleReadToken(token)>>

OperationArg(operation, allowed) == <<operation \in allowed, "invalid">>

(* A carriage return or a line feed in a header is refused. *)
EncodedMimeMessage(args) ==
  << Needs({"to"}, args), <<"broken_to" \notin args, "unsent">>,
     Needs({"subject"}, args), <<"broken_header" \notin args, "unsent">> >>

GmailOperation == {"draft.create", "message.send", "draft.send", "other"}

GmailWriteChecks(operation, args, token) ==
  <<OperationArg(operation, GmailOperation \ {"other"}), Fits(args), GoogleWriteToken(token)>>
    \o (IF operation = "draft.send" THEN <<Needs({"draft_id"}, args)>> ELSE EncodedMimeMessage(args))

CalendarOperation == {"event.create", "event.update", "event.delete", "other"}

(* Attendees would be invited without anybody having been asked. *)
CalendarEventBody(args, timed) ==
  << <<"attendees" \notin args, "unsent">>,
     Needs(IF timed THEN {"times"} ELSE {}, args) >>

CalendarWriteChecks(operation, args, token) ==
  <<OperationArg(operation, CalendarOperation \ {"other"}), Fits(args), GoogleWriteToken(token)>>
    \o CASE operation = "event.create" -> CalendarEventBody(args, TRUE)
         [] operation = "event.update" ->
              <<Needs({"event_id"}, args)>> \o CalendarEventBody(args, FALSE)
                \o << <<args \cap {"summary", "times"} # {}, "unsent">> >>
         [] OTHER -> <<Needs({"event_id"}, args)>>

DriveOperation == {"file.create", "file.update", "other"}

BoundedContent(args, required) ==
  << Needs(IF required THEN {"content"} ELSE {}, args),
     <<~({"content", "oversized"} \subseteq args), "unsent">> >>

DriveMetadata(args, named) == <<Needs(IF named THEN {"name"} ELSE {}, args)>>

DriveWriteChecks(operation, args, token) ==
  <<OperationArg(operation, DriveOperation \ {"other"}), Fits(args), GoogleWriteToken(token)>>
    \o IF operation = "file.create"
         THEN DriveMetadata(args, TRUE) \o BoundedContent(args, TRUE)
         ELSE <<Needs({"file_id"}, args)>> \o DriveMetadata(args, FALSE) \o BoundedContent(args, FALSE)
                \o << <<args \cap {"name", "content"} # {}, "unsent">> >>
=============================================================================
