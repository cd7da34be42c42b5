# BLUE-TANUKI in TLA+

BLUE-TANUKI is a personal assistant gateway. Messages come in over chat
channels, webhooks and a scheduler; HDS-BRAIN, a deterministic "authority
kernel", decides what each of them may become; a human approves what policy
does not settle; an executor runs the resulting commands. The whole gateway is
one Node.js process: every handler runs alone from one `await` to the next, and
at an `await` any other handler may run. That is the grain of the models: one
action per stretch of code between two awaits.

Paths below are relative to `src/`. Line numbers are those `PROJECT.json`
("map") gives for each definition.

## 1. The system

### Components, their state and their operations

| Component | State | Operations |
|---|---|---|
| HDS controller, `packages/hds-brain/src/controller.ts` | controller state, commands in flight, suspended requests, audit chain, long-term memory | `decide`, `resume`, `onApprovalEvaluation`, `onCommandLifecycle`, `onFeedback`, recorders of audit-only events |
| Process policy and action router, `process.ts`, `action_router.ts` | none | who asks, under which process; the command a request becomes; what the process lets run |
| Approval policy, runtime and grant store, `approval_policy.ts`, `approval_store.ts`, `apps/gateway/src/approval_runtime.ts` | stored grants (optionally a file) | classify, match, evaluate, remember, revoke, expire |
| Gateway command path, `apps/gateway/src/serve.ts` | `pendingApprovals`; the handlers themselves, suspended at their awaits | `handler`, `executeAndEcho`, `resumePendingApproval`, `onResume` |
| WebChat, `packages/channel-webchat` | one-time approval tokens, WebSocket tickets, sockets, requests being read | constructor, start, stop, the endpoints with their bearer tokens, issue, consume, expire and evict tokens and tickets |
| Executor, `packages/blue-tanuki/src/executor.ts` | the timers and promises of what it executes | check the constraints, call a tool, an LLM or a channel, report feedback |
| Tools, `packages/blue-tanuki/src/tools` | the files, processes and services they touch | files, search, shell, fetch, browser, GitHub, Google, schedules |
| Channel base and channels, `packages/channel-*` | adapters and their transports, the poll offset, token buckets | start, stop, send with retries, poll, consume, prune |
| Failure memory, `failure-memory/*` | failure signatures and their snapshot file | extract, propose, upsert, set a state, decay, revalidate, gate |
| Cron lane, `apps/gateway/src/cron_channel.ts` | registered runtimes and their timers, fires in progress | start, stop, upsert, remove, fire |
| Runtime schedules, `apps/gateway/src/runtime_schedule.ts` | schedules, pending operations, a JSON file | prepare, reject, approve, prune, persist, open |
| Audit chain, complete history, long-term memory | hash chains in append-only files | append, load, verify |
| Session store, `sessions/json_file.ts` | histories in files | append, truncate, read |
| Settings, setup, doctor, plugin loader | the environment file and its backups | boot checks, `doctor`, `setup`, saves of the settings page |
| Review gate, operator surfaces, packaging | none at run time | reports, prompts, build scripts |

A request enters through a channel and `serve.ts: handler`. `decide` yields a
command (ASSERT), or suspends the request, or ends it. `executeAndEcho` asks the
failure memory, then the approval policy: the command runs, is refused, or waits
in `pendingApprovals` with a one-time token sent to the user. A human's verdict
comes back over the resume surface: for a command it goes to
`resumePendingApproval`, for a suspended request to `hds.resume`, whose command
enters `executeAndEcho` again. The executor calls a tool, an LLM or a channel,
and its feedback ends the command. An approved `schedule.*` command is a tool
call that changes the schedule store and the cron lane; a timer of the lane
produces new inbound requests. What the gateway is at all is decided before: by
an environment that setup or the settings page wrote, that the doctor looked at,
and that the boot accepts or not.

### What is hard here

- A verdict arrives while the token of another one is being issued, twice, or
  for something that has been settled; everything between the token check and
  the effect is an await.
- A command is judged at one time and run at another: grants, failure
  signatures, health and schedules change in between.
- A fire of a schedule is a long asynchronous operation, during which its
  schedule can be replaced, deleted or the lane stopped.
- The schedule store is written in place, without a lock, by overlapping calls,
  and read back after a crash; so is the snapshot of the failure memory. The
  environment file is written by a backup, a temporary file and a rename, by
  saves that may overlap.
- Approvals time out, and so do the calls a command makes; what was called is
  never cancelled, goes on, and answers or mutates late.
- Connections break before, while or after a remote service has done what it was
  asked; a retry does it again.
- The address a name had when it was checked is not the one it has later, and a
  redirect leads elsewhere.
- The hash chains and the session files are appended to line by line; a failed or
  interrupted write leaves a part of a line, which the next one joins.
- `AuditLog.append` enters its record and may then throw: the call that wrote a
  verdict or an end into the chain is over before it took effect.
- A tool looks at a path in several awaits and uses it in later ones; another
  program may have put a link there in between.
- Five programs (boot, doctor, setup, settings page, `env_file`) judge the same
  variables, each by its own code.

"hazards" in `PROJECT.json` lists these one by one, each at its line, with the
properties that would catch it going wrong or the reason why none does.

### What makes each part correct

- *Controller:* only a human lifts a suspension; a request has at most one
  command; a refusal is final unless the call that recorded it threw; nothing is
  issued once health is lost; a command's end is credited once by calls that
  returned.
- *Command path:* what needs final review runs only after a human approved that
  very command; nothing runs twice or after a refusal; the audit chain says what
  happened; a remembered grant covers only what it was given for; no command is
  forgotten.
- *Executor, tools and sends:* every command gets its feedback; what feedback
  says of the outside world is so and stays so; no tool connects to an address
  that is not public, and none is let out of its root by its own checks.
- *WebChat:* a token opens the endpoints of its kind only; a ticket becomes one
  socket; a stop loses no message that was accepted.
- *Poller:* no update is lost. *Rate limits:* nobody gets more, or less, than
  the rate.
- *Cron lane:* a registered task keeps its clock, a removed one does not; a
  daily task never overlaps itself.
- *Runtime schedules:* only what an owner approved or the environment configured
  fires, also after crashes; an active schedule changes only by an approval;
  store and lane agree.
- *Chains in files:* a running process holds one unbroken history with everything
  it ever acknowledged; a break stays visible.
- *Sessions:* a file loses its oldest lines only; a turn is given what was
  answered before it began; a late answer is no part of it; every turn ends.
- *Failure memory:* what was learned stops nothing before somebody ruled on it;
  a failure that happens again does not loosen a rule; rules survive.
- *Configuration:* what was saved boots, under conditions on the environment of
  the process; what the doctor clears boots; the file is never left half-written.

## 2. The modules

| Module | Models |
|---|---|
| `ToolCatalog` | the tools a request can name and the capability envelope of each (`TOOL_SPECS`) |
| `ProcessPolicy` | `resolveActor`, `resolveProcess`, `buildCommand`, the process authority and execution policy checks, as operators on an abstract request |
| `HdsController`, `HdsControllerProofs` | the authority kernel, one action per method (`decide` is three: malformed, fail-safe, judged) and one for each that throws out of its append; its inductive invariant and theorems |
| `ApprovalPolicy` | classification, grants and `evaluateApproval`, as operators |
| `ApprovalGateway`, `ApprovalGatewayProofs` | `HdsController` and `ApprovalPolicy` composed with the gateway's handlers, tokens, failure gate and executor; its inductive invariant, theorems on all it is checked for, and the proof that it implements the boundary |
| `AuthorityBoundary` | the abstract promise about each command, which `ApprovalGateway` implements |
| `ToolChecks`, `ToolRuns` | what each tool asks of its arguments, as sequences of checks; when it asks and what it does afterwards, await by await, and what its error says |
| `ChannelSends` | dispatcher, adapters, transports, retries with backoff |
| `Executor`, `ExecutorProofs` | `ToolRuns` and `ChannelSends` composed under `Executor.execute` and its timer; the proofs that its reports are true and its tools stay in bounds |
| `SessionTurns` | the LLM commands of one session in the executor, and its file in the session store |
| `WebChat` | the server: tokens, endpoints, tickets, sockets, start and stop |
| `TelegramPoller` | the poll loop, the Bot API's side of the offset, restarts |
| `RateLimits`, `EagerBucket` | token buckets as coded; the abstract bucket that is refilled all the time |
| `CronScheduler`, `CronSchedulerProofs` | the cron lane |
| `RuntimeSchedules`, `RuntimeSchedulesProofs` | the schedule manager, composed with `CronScheduler`, the tasks of the environment, its file, and crashes; the proof that nothing else fires |
| `DurableChain` | the audit log, the long-term memory and the complete history as chains in append-only files |
| `FailureMemory` | the life of a rule, the gate, the snapshot file |
| `Configuration`, `Doctor` | environments: what the boot, the settings page and the doctor make of them, as operators |
| `Provisioning` | the environment file: setup, saves, backups, restarts |
| `MCEdges`, `MCStores` | the components that share no variable, side by side |
| `Subsequences`, `SubsequenceTheorems` | what a filter leaves of a sequence (`gc` of the ticket store, the lines of a session that parse), and the lemmas on it |
| `EdgeProofs` | theorems on WebChat, poller and rate limits, that the bucket implements the abstract one, and on all that `MCEdges` composes |
| `StoreProofs` | theorems on the chains, the sessions, the failure memory and the environment file, and on all that `MCStores` composes |
| other `MC...` | instances for TLC |

`MCEdges` and `MCStores` put components into one run that share no variable:
`lane` says which one a behaviour is about, and the others rest. These modules
say nothing about components running side by side: they save runs, since nothing
one of these components does can be seen by another, and each lane is checked in
full. `EdgesAreApart` and `StoresAreApart` are lemmas that carry what is proved
of a component over to them; they hold by the shape of the two modules and say
nothing of the code.

### How state and actions correspond to the code

**HdsController.** `inflight` and `suspended` are the maps of the class (the log
a command was emitted under; whether a suspended entry may be resumed). The
audit chain is the set of the records appended so far, in two parts: `audit` has
those of calls that returned, `dangling` those of calls whose append entered the
record and then threw at its write (`audit.ts:60-64`). Such a call
(`DecideThrows`, `ResumeThrows`, `ReportThrows`) leaves the record in the chain
and the maps as they were: a suspended request stays suspended with a verdict on
it in the chain, a command stays in flight with an end of it in the chain.
`issued` is a history variable that
remembers the log each command's `upstream_decision` names. The detectors are
not modelled: `Decide(r, scored)` takes the verdict they lead to, any of the
four. `CommitOf` then applies the two deterministic denials as the code does.
`LoseHealth` stands for a chain that stops verifying, after which the process
has no way back.

**ApprovalGateway.** A handler waiting at an await is an element of `issuing`
(its token is being issued), `verdicts` (a verdict whose token was honoured,
before its effect; its `stage` says before or after the await of
`resumePendingApproval`) or `executing`. `Submit` is `executeAndEcho` up to its
first await, with the outcome of the failure gate, the policy evaluation and the
schedule preparation. `LoseVerdict` is `approval.remember` throwing because its
file cannot be written, after `pendingApprovals.delete`. A controller that throws
ends the handler where it stands: `ReceiveThrows` (no command was built),
`SubmitThrows` and `ReleaseThrows` (the command is left in flight and nobody is
asked), `ResumeSuspended` by `ResumeThrows` (the verdict is lost with its token),
`FinishThrows` (the command has run, and its feedback is in the chain). `consented`
and `recorded` are history variables.

**ToolChecks and ToolRuns.** The checks of a tool are a sequence in the order of
the code; `Says` is the first that fails, and tells whether the error claims
that no mutation was sent. `Invoke` starts an invocation, and one action per
stretch between its awaits follows: `Resolve`, `Connect`, `Redirect` for what
goes to the network (a name may resolve differently each time), `Perform` for a
service that does what it was asked, at any time while the request is in flight.

A path is looked at and used in different awaits. `ResolvesParent` is the
`realpath` of its directory, `ResolvesFile` the `lstat` and `realpath` of the file
itself, and `FileWrite` or `FileEdit` and `EditOpens` open it by its name
afterwards, without looking again; a search takes a name out of the directory
(`Walk`), resolves it (`WalkResolves`) and lists or reads it (`WalkVisits`); a
shell child is started (`ChildStarts`) after its directory was resolved
(`ShellExec`). `way` is where the path leads, and at each of these points
(`OnTheWay`) `Relink` may change it, which `moved` remembers. `reached` has what
was visited and whether its path had been moved; `applied` and `reached` are
history variables. A child is bounded by nothing but the directory it starts in:
what it does from there is not in `reached`.

**ChannelSends.** `Dispatch` is `ChannelDispatcher.dispatch` and the adapter's
`send` up to the first attempt; each attempt is a request (`CallOnce`) that the
platform may `Post` before it is `Answered`, or the answer is lost. `After` is
the decision of `withRetryBackoff` and `is_retryable`, `Pauses` its delays.
Slack and Discord keep the transport a send began with, Teams and LINE read
`this.transport` on every attempt; adapters start, fall silent and stop meanwhile.

**Executor.** `feedback` is what `execute()` returned, `timer` the timer of
`withTimeout`. When it goes off the feedback is a timeout, and the invocation
goes on. A `channel_send` has no timer, as in the code.

**SessionTurns.** `phase` says at which await of `executeLLMCall` a turn stands.
`ops` is the promise chain of the session (`serialize`); the head runs, and its
`stage` says which await of `append` or `truncateToCap` comes next, with `kept`
what the latter has read. `GetMessages` reads the file outside the chain, as the
code does. A turn in `timed_out` has lost the race of `withTimeout`; the LLM may
answer, and nobody awaits it. `Die` is the end of the process and its restart:
the file stays. `seen`, `earlier` and `all` are history variables. Sizes
are counted in lines of one size; `CutSize` is `cap * 1024` in that unit.

**WebChat.** `Endpoint` is the route table: the kind of token each route asks for
and what it does. A request is looked at when it arrives (`Arrive`) and acts when
its body has been read. `stop()` is three steps: the sockets are told to close
(`StopServer`), the WebSocket server ends when they are gone (`SocketsGone`) —
until then HTTP is still accepted —, and `server.close` ends when no request is
left (`Closed`). Which requests a rate limit refuses is `RateLimits`; here a
limited endpoint may always decline. What a verdict does is `ApprovalGateway`.

**TelegramPoller.** `sent` and `confirmed` are the Bot API's; `loop` is the poll
loop with its offset, which lives in memory only. `ProcessEnds` may happen
anywhere, with or without `stop()`. `begun` and `done` are history variables.

**RateLimits.** A bucket holds what it held at its last use and how long ago that
was; `Refilled` is the refill of `consume`. Tokens are counted in units so that
the rate is a whole number per tick. `EagerBucket` says what that promises.

**CronScheduler.** A `CronTaskRuntime` object is a reference, so that an object
can outlive its registration; a free reference is allocated again. `armed` is
the set of objects with a timer, `resolving` and `handling` count the fires of
an object at the two awaits of `fire()`. The lane handles what local time means
(`delayUntilLocalTime`) as "the timer goes off at some time".

**RuntimeSchedules.** The lane starts with the tasks of the environment
(`EnvTasks`, from `BLUE_TANUKI_SCHEDULES_JSON` and `BLUE_TANUKI_DAILY_BRIEF_*`) and
the active schedules (`BootTasks`, `serve.ts:333-335`). The manager does not know
the former: an approved operation on the id of one replaces or removes it in the
lane (`decided` remembers on which ids), until the next start. A `persist()` under way is a writer with its snapshot: its
file is torn from the moment `writeFile` truncates it to the moment it is done,
and two writers inside that window may leave a mixture. `Crash` may happen at
any moment; `Boot` is `open()`, which throws on a torn file, and the construction of
the lane, which throws when a schedule has the id of a task of the environment
(no step either way). `approved`, `deleted` and `decided` are history variables.

**DurableChain.** One module for three stores that share a shape; `store` says
which one a behaviour is about, and the actions branch where the code differs:
`AuditLog.append` enters an entry before it writes and lets the error out, the
other two enter it once it is written and stop at `max_entries`. The three use
synchronous writes, so an append is one step. An entry is written as the
sequence of records it closes, which is what its hash stands for when hashes do
not collide. A line of the file has a text, the entry or `Torn`, and may lack
its newline; `Landings` says what a write that throws, or a kill, may leave.
`Repair` is the operator of `docs/runbook.md`, 6.1, who cuts a broken chain
back to a known good index or puts it aside; without it a broken file would end
the behaviour. `acked` is a history variable.

**FailureMemory.** A rule is a record of severity, state, policy, probe,
confidence and match level; the actions are the methods of the store, each ending
in `Persist`, which may fail before, in the middle of or after the write.
`GrowOld` is the passing of a rule's TTL. `EvaluateGate` is a function of how
alike a command and each rule are, so that the properties quantify over all
commands. `ruledOn`, `returned` and `emptied` are history variables.

**Configuration, Doctor and Provisioning.** An environment is a function of the
variables that are set, some of them to nothing (`blank`). The code tells the two
apart in places: `loadEnvFile` keeps a blank variable and `??` takes it (`Raw`,
`FirstSet`), most readers treat it as absent (`Present`, `Val`). `Boots` follows
`serve.ts` up to the listening port: the plugins, the LLM with the headers that
are parsed once an OpenAI backend is registered (`ParsesHeaders`), the stores of
memory, failures, history, grants and schedules (`OpensStores`), the cron tasks,
with one that has the id of a schedule (`ConstructsCron`), the services of the
daily brief, and WebChat; `RunDoctor` is the list of all checks, each a level, and
`ExitCode` what they amount to. `ConfigFromEnv`, `ApplySettingsPatch`,
`ValidConfig` and `RenderSetupEnvFile` are the round trip a save makes. In
`Provisioning` names refer to inodes, so that a writer goes on writing to a file
that another has renamed; saves made in the same millisecond share their
temporary name.

### Abstractions

- Text is abstracted to what the decisions depend on: a request is a record of
  the outcomes of the parsing functions, an argument a target or the set of the
  arguments given, a path where it is named and where it leads, a payload a model
  value. Hashes are not modelled: records are values, so equal means equal.
- Ids made by `randomUUID()` are fresh values. The one fixed id,
  `invalid-inbound-boundary`, is modelled as such.
- Grants without expiry: `duration_ms` is not given when a grant is remembered.
- In `ApprovalGateway`, the failure memory identifies commands that policy cannot
  tell apart, and knows nothing at the start; its own life is `FailureMemory`.
- Complete-history records are left out of the gateway, and so are rendered
  messages; dispatching them is not an await any property depends on.
- Reading a session's history does not fail (`getMessages` turns a failed read
  into an empty history). Writing it may.
- One process appends to a chain or a session, which is what both stores ask for
  in their comments.
- The clock of a token bucket does not step back. (If the system clock does, the
  code refills twice for the same time.)

## 3. The runs

| Run | Question | Instance |
|---|---|---|
| `hds` | What can become a command, who lifts a suspension, how is each end attributed, under any order of calls? | 3 requests (a plain one, one with a forged `channel_send` triple, one with the resume marker), 2 command ids, 6 audit records, 2 of them of calls that throw |
| `hds_resume_policy` | Does every command obey its process's execution policy? (violated) | the same |
| `gateway` | Who approved what ran, on which grant? Whichever call of a handler throws: does the audit chain tell what ran, is what a human may still approve alive, does a refusal stand? | ask mode, two file writes of two users to one target, 2 command ids, a boot grant that denies or none, a grant file that may fail, 2 audit records of calls that throw |
| `gateway_review` | Does full access replace the confirmation of a final review? Is the abstract boundary implemented? Is every honoured verdict applied, and no command forgotten? | full-access mode, one write and one schedule creation, a boot grant of full access, a working disk |
| `edges` | Are reports true, bounds kept, and does what was begun end: tools, sends, WebChat, poller, rate limits, cron lane? | see below |
| `stores` | Is what was acknowledged there, what failed not, and what was saved bootable: chains, sessions, failure memory, environment file? | see below |
| `cron_orphan` | Is a deleted schedule's timer gone? (violated) | 1 task, 2 objects |
| `schedules` | Does only fire what was approved or configured? Do store, environment, lane and pending operations agree? | 2 schedule ids, a task of the environment under one of them with a payload of its own, 2 commands in progress, 2 objects, crashes and failing writes |
| `schedules_restart` | Does an acknowledged deletion survive a restart? (violated) | 1 id, daily or by interval, no failing writes |
| `sessions_failed` | Does a failed call leave nothing in the history? (violated) | 2 turns, no deaths |
| `telegram_redelivery` | Is an update handed over at most once? (violated) | 3 updates, 2 starts |
| `doctor_boot` | Does what the doctor clears boot? (violated) | 7 edits of a minimal environment |

Several properties are conjunctions of parts that only make sense together and
that one kind of mistake would break: `CommandsRestOnDecisions` (kernel),
`TimersFollowTasks` (lane), `ChainKeepsItsWord` (chains), `HistoryIsTheAnswered`
(sessions). Their parts have names of their own, which the proofs use.

**Why these bounds are enough.** The kernel treats requests independently except
through the shared maps, so two requests (one of them refused by each policy
check) and two commands show every interference; six records let one request
be suspended, denied, resumed, emitted, reported and reported again, or another
go on meanwhile, and any two of them may be of calls that threw: a verdict and the
one that overrules it, an end and the one credited after it. In the gateway, the interesting races are between a command and another
whose approval creates a grant for it, which takes two commands. `MaxAudit` is not a bound
there (100 records are never reached): the state space is finite because ids are.
A call that throws ends its handler, so two of them hit two commands, or one command
twice.

In `RuntimeSchedules`, operations on different ids meet only in the file, which
is written as a whole, so two commands produce each overlap of
snapshots; ids of commands that are over are used again, so the number of
operations in a behaviour is not bounded. Tasks of the environment meet a schedule
only under their own id, so one of them and an id besides are enough. `Asked` bounds
what is requested to one payload per id, so that an update there puts back what was
approved, and with two runtime objects one that outlives its registration meets a new
one only after a deletion. The proofs, which have no such bounds, cover the rest. States are
identified (`ScheduleView`) when they differ in the names of objects, in deletions
reported, and in fires of what was approved, which no action and no property of that
run can tell apart.

In `edges`, *tools*: one invocation of each tool with every combination of its
arguments that the checks tell apart; invocations share nothing but the file, so
one at a time shows all of them. A path may be changed at every await, any number of
times. *Sends*: an adapter of each sort (one that keeps
its transport, one that reads it again), two retries, delays that reach their cap.
*WebChat*: two requests, so that one is being read while the other does something;
two tickets with room for one, so that one is evicted; three token texts, which
makes every combination of set, unset and doubled tokens; an endpoint for each
kind of token and each effect. That the inbound token is "x" and the resume token
"y" loses nothing: only which tokens are alike matters. *Poller*: three updates in batches of
two, one that is dropped, two starts: an update is refetched, half a batch is
lost, and the offset comes from nothing. *Rates*: a capacity of two and a half
calls, so that fractions occur, and an idle time above the longest refill.
*Cron*: an object, its successor, and one more that is left over from before, are
three; two fires of an interval overlap.

In `stores`, *chains*: the shortest way to lose an entry or to hide a break takes a
good entry, a failed write, one more append, a crash and a boot; a length of 5
leaves room for it after a `max_entries` of 2 is reached, and two records
tell the histories apart that meet in one file. *Sessions*: three turns append six
lines at most; the file is cut at the fourth, so a cut happens while turns are
queued behind it, and again after it. *Failure memory*: every change is to one
rule and the gate takes the strongest of them, so one rule shows what can become of
any: it goes through all of its states, between restarts and one failed write. *Settings*: two saves
overlap in every way, around one stop or crash, from three first files and five
process environments: empty, one that knows a key and a token, and one for each of
the three conditions of `SavedSettingsBoot`.

`CHECK_DEADLOCK FALSE` is used where the instance runs out of request or command
ids or audit records, where a lane is done (a server that stopped, tools that
settled), or where a torn file stops the restart, which the program itself does.

**Fairness.** `gateway_review` assumes weak fairness of the steps that the process
itself owes: a token that is being issued gets issued, an honoured verdict is
applied, and a command in the executor ends. The commands of that instance are
tool calls, which carry a timeout `withTimeout` enforces. Nothing obliges a human
to answer. No append throws there (`MaxDangling` is 0): a command whose handler
threw is in flight for ever, with nobody asked, which `gateway` can reach.

`edges` assumes that a timer of the executor goes off and that a tool's promise
that is settled is heard — not that a tool ever settles, which is why
`CommandsEnd` rests on the timer. For a send it assumes that each attempt is
answered, with an error if need be: `executeChannelSend` has no timeout of its
own, so without that assumption a send need not end, although the comment at
`executor.ts:65` says that timeouts are enforced. The poller's steps are weakly
fair; the network is strongly fair: a poll may fail any number of times, not for
ever. Gateway starts are weakly fair. For the cron lane timers go off and what
`fire()` awaits ends: the provider makes a few HTTP requests, deliveries a bounded
number of attempts, and the router catches what a handler throws.

`stores` assumes for the sessions that file operations end, well or badly, and
that the timer of `withTimeout` goes off: `buildCommand` gives every LLM command a
timeout. That the LLM ever answers is not assumed. Nothing else there is fair.

Each fair action is disabled in the first state of the lanes it does not belong to
and no other lane enables it, so the fairness of one lane asks nothing of another.

## 4. What the runs found

1. `hds_resume_policy`: a command lifted out of a suspension is built without
   the execution-policy check that every directly asserted command passes
   (`controller.ts:598`). A human has approved the request, and the approval
   gate still follows, but the documented rule is not enforced there. What does
   hold for these commands is proved: `CommandsHaveProcessAuthority`.
2. `cron_orphan`: the `finally` of a daily timer re-arms a runtime object that
   was removed or replaced while it fired (`cron_channel.ts:209-211`); it goes
   on firing every day until the process ends. `OrphanTimersAreDaily`, a part of
   `TimersFollowTasks`, bounds the damage: intervals and idle tasks are not
   affected.
3. `schedules_restart`: `persist()` calls overlap without an order
   (`runtime_schedule.ts:407-415`), so an older snapshot can bring back a
   schedule whose deletion was reported. `OnlyApprovedFires` still holds: what
   comes back had been approved once.
4. `sessions_failed`: question and answer are appended in two steps
   (`executor.ts:144-155`); when the second fails, or a cut does, the command is
   reported as failed and its question stays in the history, which the comment
   above it rules out. `TurnsEnd` shows that the failure blocks nobody else.
5. `telegram_redelivery`: a process that ends between handing over an update and
   its next request is given the update again, and hands it over a second time;
   `packages/channel-base/src/types.ts:20` asks for exactly once. That it is
   never lost is proved.
6. `doctor_boot`: the runbook's own example of a provider row passes the doctor
   and stops the boot, because the manifest does not declare its key variable
   (`plugin_loader.ts:459`, `docs/runbook.md:165`).

### Observed while modelling

Not properties of a run, but worth knowing to whoever changes this code.

- *Boot and doctor.* A `WEBCHAT_TOKEN` shorter than 8 characters is a warning, the
  constructor throws (`webchat.ts:404`). `LLM_API_KEY` and `LLM_MODEL` without an
  endpoint pass under the stub backend, and the boot throws. Bad
  `GOOGLE_ENABLED` services are ignorable while the daily brief is off, and the
  boot throws. An empty `WEBHOOK_TOKEN` passes. The doctor does not verify the
  audit chain, by design; the dump of a broken chain reports no entries
  (`audit_dump.ts:148-158`), although `docs/runbook.md:532` suggests it to look
  how far the chain got.
- *Settings.* A save takes the file over the running environment as its base,
  while at boot the process environment goes before the file. It drops
  `LLM_PROVIDERS_JSON`, `WEBHOOK_TOKEN` and the tokens of chat channels, which
  only the backup keeps, and it carries key, model and endpoint over to another
  provider. Of two overlapping saves the earlier patch is lost. A token of 8 to 15
  characters boots, and no save is accepted with it.
  `SavedSettingsBoot` holds under three conditions on the environment of the
  process, each of which the code needs: it has no `LLM_BACKEND` (which may name a
  row only the file had); it sets none of the saved variables to nothing, as
  `loadEnvFile` keeps a blank variable (`env_file.ts:86`), so that with
  `ANTHROPIC_API_KEY=""` a saved key for Anthropic is not found
  (`anthropic.ts:22`); and its headers parse, as they are not looked at before an
  OpenAI backend is registered (`llm_config.ts:221`). Without one of them a default
  setup boots and a saved one may not.
- *Audit.* `AuditLog.append` enters its record before it writes it (`audit.ts:60`).
  When the write throws, the call of the controller is over with the record in the
  chain in memory: a rejected suspension is still suspended, and another verdict
  on it is accepted; a command that was refused, or has its feedback, is still in
  flight, and another end is credited to it. `CommandsRestOnDecisions` and
  `OneAttributedEnd` say that this is the only way to either. In the gateway
  neither happens (`RefusalsStand`, `AuditMatchesExecution`): a token is issued
  once and honoured once, and a handler reports one end. What remains is that
  such commands stay in flight.
- *Failure memory.* An empty snapshot, which a write cut off after its truncation
  leaves, loads as a memory without rules. `false_positive` brings a retired rule
  back to the shadow, `manual_review_required` puts a shadow rule in force, and a more severe
  failure can weaken a block rule on probation. Decay has no cooldown. The
  gateway itself calls `evaluateCommandGate`, `upsertSignature` and `list` only.
- *Tools.* Between the checks of a path and its use lie awaits: if another program
  puts a link there meanwhile, a file tool follows it out of its root
  (`builtin.ts:391-432` and `:1800`, `:1838`, `:1858`, `:1752`). A child of
  `shell.exec` is confined by its working directory only, which bounds where it
  starts. `file.write` looks for secret-like names in the text of the path only;
  two `file.edit` of one file lose the first (`builtin.ts:1838`); previews of the
  browser resolve names themselves.
- *Channels.* HTTP 5xx of LINE and Teams is not retried unless it carries
  `Retry-After`. Jitter is added after the cap, so a pause exceeds
  `max_delay_ms` by up to a fifth. `stop()` of the poller resolves after 250 ms
  while the loop finishes its batch; a handler that never returns blocks the
  poll. `InboundRouter.stop` awaits no handler (`router.ts:57`). Discord's
  `start` may hang if `ClientReady` never comes. A webhook's `reply_to` may name any user.
- *Schedules.* A schedule may be created under the id of a task of the environment:
  `buildPending` looks for the id among the schedules only (`runtime_schedule.ts:318`).
  It replaces that task in the lane and is saved, its deletion leaves neither, and as
  long as it is active the next start throws on the duplicate (`cron_channel.ts:436`).
- *Gateway.* A torn schedule file stops the boot (`runtime_schedule.ts:472`);
  pending approvals live in memory only (`serve.ts:303`), so after a restart the
  tokens users hold are void.

## 5. What is proved

Theorems hold for every value of the constants that satisfies the named assumptions,
in particular for any number of requests, commands, tasks, tickets, updates,
records, rules and saves. What the assumptions ask:

- that sets meant to be apart are apart and numbers are numbers
  (`RouteTimeoutAssumption`, `ControllerAssumption`, `RateLimitsAssumption`,
  `CronAssumption`, `CalledAssumption`, `PollerAssumption`, `ScheduleAssumption`,
  `EnvAssumption`: no two tasks of the environment have one id, or the gateway does
  not start,
  `ChainAssumption`, `ToolRunsAssumption`, `ChannelSendsAssumption`,
  `SessionAssumption`: a torn line is no message), that a command is a tool call or
  a send (`ExecutorAssumption`), that secrets can differ and the user of no ticket
  is no user (`WebChatAssumption`);
- `PowersAssumption`: a power of 2 is a natural number. It says nothing of the
  program; the provers have no definition of `^`, and an induction is out of reach;
- `GatewayAssumption`: ids are distinct (`randomUUID`), a command always names a
  target (`scopeFromCommand`), the grant file is a parsed array whose grants name
  finitely many capabilities;
- `FailureAssumption`: what a caller of `FailureMemory` adds is a signature of the
  type the code declares;
- `ProvisioningAssumption`: the first file was not cut off, a number in an
  environment is one of the kinds the code tells apart (`Routed`), and a patch of
  the settings page has only the fields its form has (`IsPatch`).

**HdsControllerProofs** proves all properties of the run `hds`, and the named parts
of `CommandsRestOnDecisions` one by one. The properties are not inductive by
themselves. `SuspendLiftedByHumanOnly`, for instance, says something about issued
commands and the audit chain, and its proof needs to know that a suspended request
has no command and was decided. The invariant `IInv` adds:

- `InflightIsIssued`: what is in flight was issued, under the same log;
- `IssuedIsDecided`: a command's log is in the audit chain, and its decisions tell
  how it came to be: asserted at once and never suspended, or suspended and then
  approved; its request is not suspended any more;
- `SuspendedIsDecided`: a suspended request has been decided, and as long as a human
  may lift it, nothing but SUSPEND was ever said of it;
- `AuthorityIsChecked`: what may still be lifted passed the process authority check,
  as every issued command did;
- `EndIsFinal`: a command whose end is credited by a call that returned is not in
  flight and was issued.

`LostIsOverruled` is invariant on top of it: if a call that threw has left a decision
on a request in the chain, the request has no command but one a human approved, as
`decide` does not judge a request twice. The properties that speak of the whole chain
rest on it.

The proof has one lemma per action and per conjunct the action can disturb; the
audit chain is only seen through three views of it (which decisions were said about
a request, which refusals and feedback were credited), so most leaves are about how
one record changes one view. The two action properties follow from the same
invariant step by step.

**ApprovalGatewayProofs** proves what the gateway runs check of safety, except
`RefusalsStand`. For `FinalReviewNeedsConsent` the chain of reasons is short: `Evaluate`
never answers "allow" for a context under final review
(`FinalReviewIsNeverAllowed`); `Submit` runs a command at once only on "allow"; any
other command enters the executor only in `ApprovePending`, which records the
consent; and the log a command was issued under never changes (`IssuedGrows`), so
what needs final review goes on needing it. It holds for any grants in the file, any
default mode and any users.

The rest rests on `GatewayInv`, which has three parts:

- `LifeInv`, the life of a command. A command waits (is pending, or its token is
  being issued) only while the controller holds it, before it ran, and after the
  audit chain says somebody is asked; it is executing exactly while it ran and is
  still held; what the chain says was refused was issued and never ran, and what it
  says ended is what ran and left the executor, whether or not the calls that say so
  returned. `PendingIsLive` and
  `AuditMatchesExecution` are read off it. Its proof goes by shapes of a step
  (`Shaped`): every action is quiet, or emits, settles or ends one command.
  `StepShaped` goes through the actions and their early returns once; that a shape
  keeps the invariant is then a matter of sets.
- `IdsInv`: tokens and verdicts name ids the gateway knows.
- `BooksInv`, who was let in by whose approval on which grant: every command stands
  on a request, every grant on the grant file or on a command it was remembered
  from. With `AllowedIsCovered` (what `evaluateApproval` allows when the default is
  to ask matches a grant that covers it) it gives `UnaskedRunsAreCovered`.

`GatewayKeepsBoundary` maps the same shapes to steps of `AuthorityBoundary`:
`Shaped` and the books determine how the status of each command moves, so each step
is one step of the boundary or a stutter.

**ExecutorProofs** proves `ReportsAreTrue` and `ToolsStayInBounds`, and that a
message is posted once per attempt at most (`CopiesStayWithinAttempts`).
`EffectsInv` says of each invocation that it is `Sound`: a mutation in flight was
not performed yet, one that settled "ok" was, one that says "unsent" neither was nor
is on its way; the address a fetch is going to connect to was checked, and whatever
was reached, or is on the way to be, lies in bounds or was moved since it was first
looked at. Of each command it says that it is a tool call or a
send, and that what was reported is how that settled, or a timeout. Every step of a
tool is one of a few forms (it is refused, settles, goes on, visits a place), so
that the proof goes tool by tool through the checks and shows which form each step
has; an error with mutation_sent=false comes from the checks alone, before anything
is sent. That a timer cancels nothing is why "unsent" must exclude a mutation in
flight and not only one that was performed.

Last, `EffectTypes` types what is remembered, `EffectsTypeOK`; what it takes more
than `EffectsInv` is the bound of a pause (`PausesAreCapped`): the backoff is capped
and then jittered.

**SubsequenceTheorems** is about filters. `SelectSeq` is defined by recursion, and
what it does to every sequence cannot be proved here. `Subsequence` counts instead:
an element that is kept goes to the place that is its rank among those kept. Ranks
grow and none is above the number kept, so each is taken once, by the pigeonhole
principle of finite sets. Hence the lemma `SubsequenceProperties`: an element for
each place kept and no other, none of them further from the end than before. It says
nothing of the code; the proofs about tickets and sessions cite it.

**EdgeProofs** has four parts.

- *Rate limits.* The bucket of the code implements `EagerBucket`
  (`LazyKeepsTheRate`), after typing it (`RateTypeCorrect`). The step that matters
  is `TimePassesRefills`: one more idle tick refills what the eager bucket grows by,
  also at the cap; a sweep forgets only buckets that would be full.
- *Poller.* `DroppedWasHandled` is the safety half of "no update is lost": the
  offset moves before the handler is called, so `PollInv` says that everything under
  the offset was handled but for the update in hand, and that a batch has no gaps
  and continues what was handled. `BootInv` says that the handler has not yet got in
  this start what is at or above the offset, so that it gets an update once per
  start at most (`HandedOncePerStart`): what `telegram_redelivery` finds needs a
  restart.
- *WebChat.* `TokensOpenTheirOwn`: what was done was done for a request whose token
  had been looked at, and the constructor lets no two tokens be alike.
  `StopLosesNothing`: requests are read only while the handler is set, a socket is
  open only before the stop. `TicketsOpenOneSocket` rests on `TicketInv`: what the
  store holds was issued and has no socket yet, and a socket is that of an issued
  ticket; so an upgrade finds the ticket once, whatever `gc` and the cap have
  evicted in between.
- *All of them.* `MCEdges` composes them with the executor and the cron lane. Each
  step is one of one part that leaves the variables of the others alone
  (the lemma `EdgesAreApart`), so what is proved of a part holds of the
  composition: the types (`EdgeTypes`) and the safety properties of the run `edges`
  (`EdgesKeepTheirWord`).

**CronSchedulerProofs** proves `TimersFollowTasks`. It is not inductive: one must
know that no two tasks share a runtime object (else replacing one clears the timer
of the other) and that nothing is armed or firing before the start (else the start
would arm an object that fires). `CronInv` adds both, and the bound on fires.

**RuntimeSchedulesProofs** proves the properties of the schedule manager and, again,
`TimersFollowTasks` for the lane it drives. An approved task can be in many places:
the store, the snapshot of a write under way, the file, a registered runtime object,
one that is still firing after its registration is gone. `ApprovalInv` says that
whatever is in any of these places was approved or, in the lane, comes from the
environment, and `OnlyApprovedFires` is its part about fires. For a crash the file alone matters: a snapshot whose write is cut
leaves the old file or a torn one, which `open()` refuses. `LaneInv` relates the
lane to the store and the environment, by the ids that approvals have decided on since
the start, so that `Fire` fires the approved payload, and the premise of a
pending operation is kept as `pendingBySchedule` admits one operation per id.

**StoreProofs** has the four stores, and their composition.

- *Hash chains* (`ChainInv`). An entry is the sequence of records it closes, so in a
  chain that verifies the entry at place n has length n (`IndexIsLength`, with the
  least place at which it would not). A file that loads holds every entry that was
  acknowledged: an append writes behind a file that holds all of them, `Landings`
  may spoil the last line but no earlier one, and a file that is spoiled does not
  load until the operator repairs it, who takes what is cut off out of `acked`.
  `BreakStays` is the action property next to it.
- *Sessions* (`SessionInv`). `HistoryIsTheAnswered` has three parts, and none is
  inductive. That a cut costs only the oldest lines needs to know that the line
  array a cut has read is still the end of the file when it is written back:
  `QueueInv` says that only the head of the promise chain is past its turn, that a
  turn has one append in it at most, and that what the head is about to swap in are
  the last cap lines of the file as it is. `WindowInv` says that the file is the end
  of everything ever written, and not too short an end. `MemoryInv` adds that a turn
  counts as earlier only once it is through, so its answer is in that end or was
  pushed out of it; that it then comes through `getMessages`, which skips torn lines
  and takes the last cap, is `SubsequenceProperties`. `UnwrittenInv`: a turn that
  has appended nothing has no line anywhere, which is where a call that timed out
  stays for ever.
- *Failure memory* (`FailureInv`). A rule nobody wrote is `Earned`: mild, or
  critical and then in force only if somebody ruled on it. It holds of memory and of
  the snapshot, as a load brings back what was saved. That a proposal of an LLM is
  `Earned` is that `addLLMProposal` takes the default policy. `FailuresDoNotLoosen`,
  which no run checks,
  needs an order on policies and severities (`HarderSaysMore`).
  `ReturnedRulesSurvive` holds as every returned call has rewritten the snapshot
  before.
- *Environment file*. `ApartInv` holds as long as no save opened the temporary file
  of another, and `AloneInv` as long as no two saves overlapped: these are the two
  conditions `EnvFileIsKept` names. For `SavedSettingsBoot`, `SettingsInv` says that
  every text saved, or about to be, was rendered from a checked configuration whose
  tokens are those setup made or those of a gateway that runs, and that the first
  file stays as it was; `RanInv` says that a gateway that runs has booted with what
  it runs with. The last step compares, variable by variable, the boot with a saved
  file to the boot with a default setup (`RenderedBoots`): every check of the boot
  that could fail on the one would fail on the other.

`StoreTypes` and `StoresKeepTheirWord` say of the composition in `MCStores` what the
theorems on the edges say of `MCEdges`, by the lemma `StoresAreApart`.

So every safety property of the passing runs but `RefusalsStand`, type invariants
included, is a theorem.

**Only model-checked:**

- liveness, and whatever needs `ENABLED`: temporal reasoning under fairness is
  outside what the provers do here (`CommandsEnd`, `UpdatesAreHandled`,
  `RegisteredKeepFiring`, `TurnsEnd`, and of the gateway `HonouredVerdictSettles`
  and `CommandsSettleOrWait`);
- `RefusalsStand`: that a token is honoured once, so that no verdict follows one that
  was lost, is checked with two lost records and not proved;
- what `Configuration` and `Doctor` compute beyond what a saved file needs to boot;
- what the runs that expect a violation refute.

## 6. Plan

Done: the authority kernel, the command path and its abstract specification, the
cron lane, the runtime schedules, the executor with tools and sends, WebChat, poller,
rate limits, chains, sessions, failure memory and the environment file, all with
proofs of what is safety; boot and doctor, checked.

Next, proofs: `RefusalsStand`, from the life of a token. Next, models, as far as
they say more than a test: the composition of the gateway
with the runtime schedules, for operations left pending by commands that were
blocked; the arithmetic of local time.

## 7. What is not modelled, and why

- Detectors, frames and output audit: they score one text, and their verdict is
  an input of the controller.
- Rendering: the HTML of the control center, messages, prompts of the operator
  surfaces, reports of the verifier.
- The review gate of plugins: a sequential report on one manifest. (It accepts
  any entry point `./...`, the loader only `./dist/index.js`; its list of permissions
  for a final review lacks `secrets:`.)
- How Slack, Discord, Teams and LINE turn an event into a request: pure
  normalisation of input of libraries.
- `clear()` of the session store and the in-memory store, `updateSignature` of
  the failure memory, revocation of grants: the gateway does not call them.
- Grants that expire: a verdict may give a duration, but evaluation and start of a command
  are one step, so an expiry between two commands is the same as a grant that was
  never given.
- The composition of `ApprovalGateway` with `RuntimeSchedules`: each alone has
  hundreds of thousands of states on its smallest useful instance.
- An interval above 2^31-1 ms, which the timer takes as 1 ms (`cron_channel.ts:196`),
  as when a timer goes off is not modelled; the lost update of two `file.edit`
  (`builtin.ts:1838`) happens in the model, but the code promises nothing about it. A
  schedule operation left pending by a blocked command (`serve.ts:508`) needs the
  composition above.
- What a child process does, and where it goes from its directory: nothing in the code
  bounds it.
- Health endpoints, notifications, audit commands, release, packaging and
  resident scripts: they change no state the models have. `PROJECT.json` gives
  the status of each component.
