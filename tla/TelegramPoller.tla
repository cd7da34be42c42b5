--------------------------- MODULE TelegramPoller ---------------------------
(***************************************************************************)
(* TelegramChannel's poll loop (packages/channel-telegram/src/telegram.ts) *)
(* between the Bot API, which keeps an update until an offset above it is  *)
(* asked for, and the handler InboundRouter wraps (packages/channel-base). *)
(* The offset lives in memory only.  Updates are numbered as they come in. *)
(***************************************************************************)
EXTENDS Naturals, FiniteSets, Sequences

CONSTANTS MaxUpdates,   \* bound: how many updates users send
          MaxBoots,     \* bound: how often the gateway is started
          Batch,        \* how many updates one answer brings at most
          Ignored       \* updates normalize() drops: no text, or from a bot

ASSUME PollerAssumption ==
  {MaxUpdates, MaxBoots, Batch} \subseteq Nat /\ Ignored \subseteq 1..MaxUpdates

VARIABLES sent,        \* Bot API: how many updates there were
          confirmed,   \* Bot API: updates up to this one are dropped
          boots,       \* how often the channel was started
          loop,        \* the poll loop
          stopped,     \* the flag stop() sets
          begun,       \* per update: how often the handler was called
          done         \* per update: how often the handler has returned

pollVars == <<sent, confirmed, boots, loop, stopped, begun, done>>

Update == 1..MaxUpdates

(* stage is where the loop awaits: the request, the answer, the handler (of
   batch's head), the pause; between them it takes the next update. *)
Idle == [stage |-> "none", offset |-> 0, batch |-> << >>]

PollInit ==
  /\ sent = 0 /\ confirmed = 0 /\ boots = 0
  /\ loop = Idle /\ stopped = FALSE
  /\ begun = [u \in Update |-> 0] /\ done = [u \in Update |-> 0]

UserSends ==
  /\ sent < MaxUpdates
  /\ sent' = sent + 1
  /\ UNCHANGED <<confirmed, boots, loop, stopped, begun, done>>

StartPolling ==
  /\ loop.stage = "none" /\ boots < MaxBoots
  /\ boots' = boots + 1
  /\ stopped' = FALSE
  /\ loop' = [Idle EXCEPT !.stage = "request"]
  /\ UNCHANGED <<sent, confirmed, begun, done>>

(* while (!this.stopped) *)
Again == IF stopped THEN "ended" ELSE "request"

(* getUpdates reaches the Bot API, which drops what lies under the offset. *)
GetUpdates ==
  /\ loop.stage = "request"
  /\ loop' = [loop EXCEPT !.stage = "answer"]
  /\ confirmed' = IF loop.offset > confirmed + 1 THEN loop.offset - 1 ELSE confirmed
  /\ UNCHANGED <<sent, boots, stopped, begun, done>>

(* Its answer: the oldest updates it still has, Batch of them at most, or,
   after the long poll, none. *)
Unconfirmed(n) == [i \in 1..n |-> confirmed + i]

PollAnswered ==
  /\ loop.stage = "answer"
  /\ \E n \in 0..Batch :
       /\ confirmed + n <= sent
       /\ n = 0 => confirmed = sent
       /\ loop' = [loop EXCEPT !.stage = "batch", !.batch = Unconfirmed(n)]
  /\ UNCHANGED <<sent, confirmed, boots, stopped, begun, done>>

(* A request or an answer is lost, or the answer is an error. *)
PollFails ==
  /\ loop.stage \in {"request", "answer"}
  /\ loop' = [loop EXCEPT !.stage = "pause"]
  /\ UNCHANGED <<sent, confirmed, boots, stopped, begun, done>>

PollWakes ==
  /\ loop.stage = "pause"
  /\ loop' = [loop EXCEPT !.stage = Again]
  /\ UNCHANGED <<sent, confirmed, boots, stopped, begun, done>>

(* Defective: one past the offset that Telegram asks for. *)
PastTheNext(u) == IF loop.offset > u + 2 THEN loop.offset ELSE u + 2

(* Math.max(offset, update_id + 1) *)
Past(u) == IF loop.offset > u + 1 THEN loop.offset ELSE u + 1

(* The next update of the batch: the offset goes past it, and it is dropped
   or handed to the handler.  The loop does not look at stopped here. *)
TakeUpdate ==
  /\ loop.stage = "batch" /\ loop.batch # << >>
  /\ LET u == Head(loop.batch)
     IN /\ loop' = [loop EXCEPT !.offset = Past(u),
                                !.stage = IF u \in Ignored THEN "batch" ELSE "handling",
                                !.batch = IF u \in Ignored THEN Tail(@) ELSE @]
        /\ begun' = IF u \in Ignored THEN begun ELSE [begun EXCEPT ![u] = @ + 1]
  /\ UNCHANGED <<sent, confirmed, boots, stopped, done>>

(* The handler returns: what it threw was caught by the router. *)
HandlerReturns ==
  /\ loop.stage = "handling"
  /\ done' = [done EXCEPT ![Head(loop.batch)] = @ + 1]
  /\ loop' = [loop EXCEPT !.stage = "batch", !.batch = Tail(@)]
  /\ UNCHANGED <<sent, confirmed, boots, stopped, begun>>

BatchEnds ==
  /\ loop.stage = "batch" /\ loop.batch = << >>
  /\ loop' = [loop EXCEPT !.stage = Again]
  /\ UNCHANGED <<sent, confirmed, boots, stopped, begun, done>>

(* stop() sets the flag and waits for the loop, or for 250 ms. *)
StopPolling ==
  /\ loop.stage # "none" /\ ~stopped
  /\ stopped' = TRUE
  /\ UNCHANGED <<sent, confirmed, boots, loop, begun, done>>

(* The process ends, after stop() or without it. *)
ProcessEnds ==
  /\ loop.stage # "none"
  /\ boots < MaxBoots          \* the last one goes on, or is stopped
  /\ loop' = Idle
  /\ stopped' = FALSE
  /\ UNCHANGED <<sent, confirmed, boots, begun, done>>

PollStep == GetUpdates \/ PollAnswered \/ PollFails \/ PollWakes \/ TakeUpdate \/ HandlerReturns \/ BatchEnds

PollNext == UserSends \/ StartPolling \/ PollStep \/ StopPolling \/ ProcessEnds

(* The loop goes on, the gateway is started again, and the network, which
   may fail any number of times, does not fail for ever. *)
LoopFairness ==
  /\ WF_pollVars(PollWakes) /\ WF_pollVars(TakeUpdate)
  /\ WF_pollVars(HandlerReturns) /\ WF_pollVars(BatchEnds)
  /\ SF_pollVars(GetUpdates) /\ SF_pollVars(PollAnswered)

PollSpec == PollInit /\ [][PollNext]_pollVars /\ LoopFairness /\ WF_pollVars(StartPolling)

-----------------------------------------------------------------------------
(* The loop keeps inside what the Bot API gave it. *)
PollTypeOK ==
  /\ {sent, confirmed} \subseteq 0..MaxUpdates /\ confirmed <= sent
  /\ boots \in 0..MaxBoots /\ stopped \in BOOLEAN
  /\ loop.stage \in {"none", "request", "answer", "batch", "handling", "pause", "ended"}
  /\ loop.offset \in 0..(MaxUpdates + 1) /\ loop.batch \in Seq(Update)
  /\ begun \in [Update -> 0..MaxBoots] /\ done \in [Update -> 0..MaxBoots]

(* No update is lost: when the Bot API drops one, the handler has returned
   from it, although the offset moves before the handler is called, requests
   and answers get lost and the process dies at any point (telegram.ts:132). *)
DroppedWasHandled == \A u \in 1..confirmed : u \in Ignored \/ done[u] > 0

(* Every update reaches the handler, though requests and answers are lost and
   the process dies between the offset's move and the handler's call, or its
   return, unless the poller is stopped (types.ts:20, telegram.ts:132). *)
UpdatesAreHandled ==
  \A u \in Update : (sent >= u /\ u \notin Ignored) ~> (done[u] > 0 \/ stopped)

(* types.ts:20 asks for the handler to be called exactly once per message. *)
HandledAtMostOnce == \A u \in Update : begun[u] <= 1
=============================================================================
