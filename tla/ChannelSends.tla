---------------------------- MODULE ChannelSends ----------------------------
(***************************************************************************)
(* A channel_send on its way out: the dispatcher, the five adapters and    *)
(* their transports, and withRetryBackoff (packages/channel-base and the   *)
(* packages/channel-* of the chat services).  Each attempt is a request to *)
(* a platform that may post the message, or not, before the answer comes   *)
(* or gets lost.  Times are in units of RetryConfig.                       *)
(***************************************************************************)
EXTENDS Naturals, FiniteSets

CONSTANTS Send,          \* ids of channel_send commands
          Configured,    \* the adapters that have their tokens
          MaxRetries, BaseDelay, MaxDelay    \* RetryConfig

ASSUME ChannelSendsAssumption ==
  /\ Configured \subseteq {"slack", "discord", "teams", "line", "telegram"}
  /\ {MaxRetries, BaseDelay, MaxDelay} \subseteq Nat

(* A fact of arithmetic, and none about the constants: the proofs know no
   powers. *)
ASSUME PowersAssumption == \A n \in 0..MaxRetries : 2 ^ n \in Nat

VARIABLES adapter,   \* per configured adapter: its lifecycle and its transport
          send       \* per command: the send, from dispatch to result

sendVars == <<adapter, send>>

(* Slack and Discord hold on to the transport a send began with; Teams and
   LINE read this.transport on every attempt; Telegram has no transport and
   does not retry. *)
Capturing == {"slack", "discord"}
Reading   == {"teams", "line"}

-----------------------------------------------------------------------------
(* classifyChannelDeliveryError over the kinds of answers told apart: a hint
   makes it recoverable whatever the text says; a text of the first list, or
   of neither, makes it final. *)
Reply == {"ok", "hinted", "transient", "refused", "unknown"}

Recoverable(reply) == reply \in {"hinted", "transient"}

(* is_retryable.  An exception is one that says it is transient or any other
   ("TypeError"); Slack and Discord retry both. *)
Thrown == {"throw_transient", "throw_other"}

Retryable(a, signal) ==
  CASE signal = "ok"     -> FALSE
    [] signal \in Thrown -> a \in Capturing \/ signal = "throw_transient"
    [] OTHER             -> Recoverable(signal)

(* withRetryBackoff's pause before retry n: the hint if there is one, capped,
   and then jittered by a fifth either way. *)
Jittered(d) == {(d * j) \div 10 : j \in 8..12}
(* Defective: the pause doubles without a cap. *)
BackoffUncapped(n) == BaseDelay * 2 ^ (n - 1)

Backoff(n)  == IF BaseDelay * 2 ^ (n - 1) < MaxDelay THEN BaseDelay * 2 ^ (n - 1) ELSE MaxDelay
Pauses(n, signal) ==
  UNION {Jittered(d) : d \in IF signal = "hinted" THEN 1..MaxDelay ELSE {Backoff(n)}}

-----------------------------------------------------------------------------
NoSend == [chan |-> "none", pc |-> "idle", attempt |-> 0, posted |-> FALSE,
           copies |-> 0, pause |-> 0, out |-> "none"]

SendState ==
  [chan : Configured \cup {"none", "other"},
   pc : {"idle", "calling", "waiting", "sleeping", "settled"},
   attempt : 0..MaxRetries, posted : BOOLEAN, copies : 0..(MaxRetries + 1),
   pause : 0..((MaxDelay * 12) \div 10),
   out : {"none", "delivered", "failed"}]

(* An adapter is new, starting, up, silent, stopping or stopped.  client is
   what its transport talks through: Bolt's app, the Discord client, or, for
   the others, fetch. *)
AdapterState == [stage : {"new", "starting", "up", "silent", "stopping", "stopped"},
                 transport : BOOLEAN, client : BOOLEAN]

SendInit ==
  /\ adapter = [a \in Configured |-> [stage |-> "new", transport |-> FALSE, client |-> FALSE]]
  /\ send = [s \in Send |-> NoSend]

(* start(): the transport is there while it starts; it comes up, or the
   adapter falls silent.  The router starts and stops an adapter once; one
   without its tokens only ever becomes silent, and is left out. *)
StartAdapter(a) ==
  /\ adapter[a].stage = "new"
  /\ adapter' = [adapter EXCEPT ![a] = [stage |-> "starting", transport |-> TRUE,
                                       client |-> a \notin Capturing]]
  /\ UNCHANGED send

AdapterStarted(a) ==
  /\ adapter[a].stage = "starting"
  /\ adapter' = [adapter EXCEPT ![a] = [stage |-> "up", transport |-> TRUE, client |-> TRUE]]
  /\ UNCHANGED send

AdapterFails(a) ==
  /\ adapter[a].stage = "starting" /\ a # "telegram"
  /\ adapter' = [adapter EXCEPT ![a] = [stage |-> "silent", transport |-> FALSE, client |-> FALSE]]
  /\ UNCHANGED send

(* stop(): the transport is stopped and, one await later, let go of. *)
StopAdapter(a) ==
  /\ adapter[a].stage \in {"up", "silent"}
  /\ adapter' = [adapter EXCEPT ![a].stage = IF adapter[a].transport THEN "stopping" ELSE "stopped"]
  /\ UNCHANGED send

AdapterStopped(a) ==
  /\ adapter[a].stage = "stopping"
  /\ adapter' = [adapter EXCEPT ![a] = [stage |-> "stopped", transport |-> FALSE, client |-> FALSE]]
  /\ UNCHANGED send

Ends(s, out) == send' = [send EXCEPT ![s].pc = "settled", ![s].out = out]

(* dispatch(): an unknown channel and a silent or stopped adapter answer at
   once; Telegram's send asks for its token only. *)
Sendable(a) == a = "telegram" \/ adapter[a].transport

Dispatch(s, a) ==
  /\ send[s].pc = "idle"
  /\ send' = [send EXCEPT ![s] =
       IF a \in Configured /\ Sendable(a)
         THEN [NoSend EXCEPT !.chan = a, !.pc = "calling"]
         ELSE [NoSend EXCEPT !.chan = a, !.pc = "settled", !.out = "failed"]]
  /\ UNCHANGED adapter

(* After an attempt: retry after a pause, or the result; an exception that is
   not retried is caught by the dispatcher, or by Telegram's own send. *)
After(s, signal) ==
  LET a == send[s].chan
      n == send[s].attempt + 1
  IN IF a # "telegram" /\ n <= MaxRetries /\ Retryable(a, signal)
       THEN \E d \in Pauses(n, signal) :
              send' = [send EXCEPT ![s].pc = "sleeping", ![s].attempt = n, ![s].pause = d]
       ELSE Ends(s, IF signal = "ok" THEN "delivered" ELSE "failed")

(* callOnce: a capturing adapter's transport finds its client gone and
   answers not_started; a reading adapter finds no transport and throws. *)
CallOnce(s) ==
  LET a == send[s].chan
  IN /\ send[s].pc = "calling"
     /\ CASE a \in Capturing /\ ~adapter[a].client  -> After(s, "refused")
          [] a \in Reading /\ ~adapter[a].transport -> After(s, "throw_other")
          [] OTHER -> send' = [send EXCEPT ![s].pc = "waiting", ![s].posted = FALSE]
     /\ UNCHANGED adapter

(* The platform posts the message. *)
Post(s) ==
  /\ send[s].pc = "waiting" /\ ~send[s].posted
  /\ send' = [send EXCEPT ![s].posted = TRUE, ![s].copies = @ + 1]
  /\ UNCHANGED adapter

(* The answer, or an error of the network, which the transports of Slack and
   Discord turn into an answer; only a posted message is "ok". *)
Answered(s) ==
  /\ send[s].pc = "waiting"
  /\ \E signal \in Reply \cup (IF send[s].chan \in Capturing THEN {} ELSE Thrown) :
       /\ signal = "ok" => send[s].posted
       /\ After(s, signal)
  /\ UNCHANGED adapter

Wake(s) ==
  /\ send[s].pc = "sleeping"
  /\ send' = [send EXCEPT ![s].pc = "calling", ![s].pause = 0]
  /\ UNCHANGED adapter

SendStep(s) == CallOnce(s) \/ Post(s) \/ Answered(s) \/ Wake(s)
AdapterStep == \E a \in Configured :
  StartAdapter(a) \/ AdapterStarted(a) \/ AdapterFails(a) \/ StopAdapter(a) \/ AdapterStopped(a)
=============================================================================
