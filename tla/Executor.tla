------------------------------ MODULE Executor ------------------------------
(***************************************************************************)
(* Executor.execute (packages/blue-tanuki/src/executor.ts) over the tools  *)
(* and the channels: the constraints of a command are checked, its tool or *)
(* its send is started, and its feedback is the outcome of that or, for a  *)
(* tool, of a timer that cancels nothing.  llm_call is SessionTurns.       *)
(***************************************************************************)
EXTENDS ToolRuns, ChannelSends

ASSUME ExecutorAssumption == Cmd = Send      \* a command is a tool call or a send

VARIABLES feedback,   \* per command: what execute() returned
          timer       \* per command: withTimeout's timer is armed

effectVars == <<toolVars, sendVars, feedback, timer>>

Feedback == {"none", "success", "timeout", "denied"} \cup (Outcome \ {"ok"}) \cup {"failed"}

EffectsInit ==
  /\ ToolInit
  /\ SendInit
  /\ feedback = [c \in Cmd |-> "none"]
  /\ timer = [c \in Cmd |-> FALSE]

Reports(c, f) == feedback[c] = "none" /\ feedback' = [feedback EXCEPT ![c] = f]

(* What buildCommand lets a routed tool_call do. *)
Constraints(t) == [allowed_tools |-> {t}, allowed_capabilities |-> ToolCaps[t],
                   timeout_ms |-> ToolTimeout[t]]

Permitted(t, constraints) ==
  /\ t \in constraints.allowed_tools
  /\ t \in RegisteredTools
  /\ RequiredCaps(t) \subseteq constraints.allowed_capabilities

(* Defective: shell_exec is left to a timeout of its own. *)
ExecuteToolOwnTimer(c, t) ==
  /\ feedback[c] = "none" /\ run[c].pc = "idle" /\ send[c].pc = "idle"
  /\ IF Permitted(t, Constraints(t))
       THEN /\ Invoke(c, t)
            /\ timer' = [timer EXCEPT ![c] = (Constraints(t).timeout_ms # 0 /\ t # "shell_exec")]
            /\ UNCHANGED <<sendVars, feedback>>
       ELSE /\ Reports(c, "denied")
            /\ UNCHANGED <<toolVars, sendVars, timer>>

ExecuteTool(c, t) ==
  /\ feedback[c] = "none" /\ run[c].pc = "idle" /\ send[c].pc = "idle"
  /\ IF Permitted(t, Constraints(t))
       THEN /\ Invoke(c, t)
            /\ timer' = [timer EXCEPT ![c] = Constraints(t).timeout_ms # 0]
            /\ UNCHANGED <<sendVars, feedback>>
       ELSE /\ Reports(c, "denied")
            /\ UNCHANGED <<toolVars, sendVars, timer>>

(* The first of the two to settle is the feedback; the other one is lost. *)
ToolSettles(c) ==
  /\ run[c].pc = "settled"
  /\ Reports(c, IF run[c].out = "ok" THEN "success" ELSE run[c].out)
  /\ UNCHANGED <<toolVars, sendVars, timer>>

TimerExpires(c) ==
  /\ timer[c]
  /\ timer' = [timer EXCEPT ![c] = FALSE]
  /\ IF feedback[c] = "none" THEN Reports(c, "timeout") ELSE UNCHANGED feedback
  /\ UNCHANGED <<toolVars, sendVars>>

(* executeChannelSend waits for the dispatcher as long as that takes. *)
ExecuteSend(s, a) ==
  /\ feedback[s] = "none" /\ run[s].pc = "idle"
  /\ Dispatch(s, a)
  /\ UNCHANGED <<toolVars, feedback, timer>>

SendSettles(s) ==
  /\ send[s].pc = "settled"
  /\ Reports(s, IF send[s].out = "delivered" THEN "success" ELSE "failed")
  /\ UNCHANGED <<toolVars, sendVars, timer>>

ToolsNext ==
  \E c \in Cmd : \/ \E t \in Offered : ExecuteTool(c, t)
                 \/ ToolStep(c) /\ UNCHANGED <<sendVars, feedback, timer>>
                 \/ ToolSettles(c)
                 \/ TimerExpires(c)

SendsNext ==
  \/ \E s \in Send : \/ \E a \in Configured \cup {"other"} : ExecuteSend(s, a)
                     \/ SendStep(s) /\ UNCHANGED <<toolVars, feedback, timer>>
                     \/ SendSettles(s)
  \/ AdapterStep /\ UNCHANGED <<toolVars, feedback, timer>>

EffectsNext == ToolsNext \/ SendsNext

(* Timers fire, promises that settled are heard, and what the gateway does
   itself is done.  Of the network only the platforms of channel sends are
   trusted to answer: nothing else ends a send. *)
Fairness ==
  /\ \A c \in Cmd : WF_effectVars(TimerExpires(c)) /\ WF_effectVars(ToolSettles(c))
  /\ \A s \in Send :
       /\ WF_effectVars((CallOnce(s) \/ Wake(s) \/ Answered(s)) /\ UNCHANGED <<toolVars, feedback, timer>>)
       /\ WF_effectVars(SendSettles(s))

EffectsSpec == EffectsInit /\ [][EffectsNext]_effectVars /\ Fairness

-----------------------------------------------------------------------------
(* One invocation per command, one post per attempt, pauses within the cap
   and its jitter (rate_limit.ts:227). *)
EffectsTypeOK ==
  /\ run \in [Cmd -> Invocation]
  /\ file \in [there : BOOLEAN, text : SUBSET Text]
  /\ applied \in [Cmd -> 0..1]
  /\ reached \in [Cmd -> SUBSET Visit]
  /\ adapter \in [Configured -> AdapterState]
  /\ send \in [Send -> SendState]
  /\ feedback \in [Cmd -> Feedback]
  /\ timer \in [Cmd -> BOOLEAN]

(* What a feedback says of the outside world is so, and stays so although
   nothing is cancelled: a mutation reported as a success was performed, one
   reported with mutation_sent=false never is, not even later
   (builtin.ts:910, google_write.ts:125), and a message reported as delivered
   was posted. *)
ReportsAreTrue ==
  /\ \A c \in Cmd : run[c].tool \in Mutators =>
       /\ feedback[c] = "success" => applied[c] = 1
       /\ feedback[c] = "unsent" => applied[c] = 0 /\ ~run[c].inFlight
  /\ \A s \in Send : send[s].pc # "idle" /\ feedback[s] = "success" => send[s].copies > 0

(* However often it is redirected and whatever a name resolves to in between,
   a fetch connects to public addresses only (builtin.ts:537).  The path a
   file tool reads or writes, the entry of a directory it searches and the
   directory a child starts in were looked at in awaits of their own before:
   they lie outside the root, or for a search where it looks secret, only if
   the way there was changed after the first of those looks (builtin.ts:375,
   :391, :434).  Where a child goes is its own affair. *)
ToolsStayInBounds ==
  \A c \in Cmd : \A visit \in reached[c] :
    /\ run[c].tool \in Fetches => AssertPublicAddress(visit.to)
    /\ run[c].tool \notin Fetches => visit.moved \/ visit.to # "outside"
    /\ run[c].tool = "file_search" => visit.moved \/ visit.to # "secret"

(* Every command that was started gets its feedback: a tool's whatever the
   network, the child process or the disk does, a send's if its platform
   answers every attempt (executor.ts:278, rate_limit.ts:188). *)
CommandsEnd ==
  /\ \A c \in Cmd  : run[c].pc # "idle" ~> feedback[c] # "none"
  /\ \A s \in Send : send[s].pc # "idle" ~> feedback[s] # "none"
=============================================================================
