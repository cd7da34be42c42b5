------------------------------ MODULE MCEdges ------------------------------
(***************************************************************************)
(* The edges of the gateway: the executor with its tools and channels, the *)
(* WebChat server, the Telegram poller, the rate limits and the cron       *)
(* channel.  They share no variable, so that every behaviour of all of     *)
(* them together is one of each: lane names the one that moves, and the    *)
(* state space is the sum of theirs and not the product.                   *)
(***************************************************************************)
EXTENDS Executor, WebChat, TelegramPoller, RateLimits, CronScheduler

VARIABLE lane

edgeVars == <<effectVars, webVars, pollVars, rateVars, cronVars, lane>>

(* Which text a token has does not matter, only which tokens share one.  *)
EdgesInit ==
  /\ lane \in {"tools", "sends", "webchat", "telegram", "rates", "cron"}
  /\ EffectsInit /\ WebInit /\ PollInit /\ RateInit /\ CronInit
  /\ lane # "tools" => file.there
  /\ token["inbound"] = "x" /\ token["resume"] = "y"
  /\ lane # "webchat" => token["webhook"] = Unset /\ token["settings"] = Unset
  /\ lane # "cron" => runtimes = <<>> /\ task = [ref \in RuntimeRef |-> CHOOSE t \in Task : TRUE]

Alone(l, others) == lane = l /\ UNCHANGED <<lane, others>>

EdgesNext ==
  \/ Alone("tools", <<webVars, pollVars, rateVars, cronVars>>) /\ ToolsNext
  \/ Alone("sends", <<webVars, pollVars, rateVars, cronVars>>) /\ SendsNext
  \/ Alone("webchat", <<effectVars, pollVars, rateVars, cronVars>>) /\ WebNext
  \/ Alone("telegram", <<effectVars, webVars, rateVars, cronVars>>) /\ PollNext
  \/ Alone("rates", <<effectVars, webVars, pollVars, cronVars>>) /\ RateNext
  \/ Alone("cron", <<effectVars, webVars, pollVars, rateVars>>) /\ CronNext

(* No fair action of a lane can be taken in its initial state, but for the
   start of the poller. *)
EdgesSpec ==
  /\ EdgesInit /\ [][EdgesNext]_edgeVars
  /\ Fairness /\ LoopFairness /\ CronFairness
  /\ WF_pollVars(lane = "telegram" /\ StartPolling)

EdgesTypeOK == EffectsTypeOK /\ WebTypeOK /\ PollTypeOK /\ RateTypeOK /\ CronTypeOK

-----------------------------------------------------------------------------
(* Every tool; an adapter that holds on to its transport and one
   that reads it again; an endpoint for every token and every effect. *)
MCOffered == Tool
MCConfigured == {"slack", "line"}
MCCalled == {"ws_ticket", "inbound", "approval", "config_write", "webhook"}
=============================================================================
