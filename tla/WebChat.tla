------------------------------ MODULE WebChat ------------------------------
(***************************************************************************)
(* WebChatChannel (packages/channel-webchat/src/webchat.ts): the HTTP      *)
(* endpoints and the bearer tokens that open them, the tickets of          *)
(* ticket_store.ts, the WebSockets they become, and start and stop.  What  *)
(* onResume does with a verdict, and the one-time approval token before    *)
(* it, is ApprovalGateway; when a rate limit refuses is RateLimits, and    *)
(* here a limited endpoint may always be refused.                          *)
(***************************************************************************)
EXTENDS Naturals, FiniteSets, Sequences, Subsequences

CONSTANTS Http,        \* requests
          Called,      \* the endpoints an instance calls
          WebUser,     \* users that ask for tickets
          Ticket,      \* tickets, and the sockets they become
          TicketCap,   \* ws_ticket_cap
          Secret       \* values a token may have

ASSUME WebChatAssumption ==
  /\ TicketCap \in Nat \ {0} /\ Cardinality(Secret) > 1
  /\ "nobody" \notin WebUser      \* the user of what is not a ticket

(* Which token an endpoint asks for, and what it does when it has it. *)
Endpoint ==
  [ page          |-> [key |-> "none",     does |-> "answer"],
    healthz       |-> [key |-> "none",     does |-> "answer"],
    settings      |-> [key |-> "none",     does |-> "answer"],
    runtime       |-> [key |-> "inbound",  does |-> "answer"],
    audit         |-> [key |-> "inbound",  does |-> "answer"],
    authority     |-> [key |-> "inbound",  does |-> "answer"],
    notifications |-> [key |-> "inbound",  does |-> "answer"],
    history       |-> [key |-> "inbound",  does |-> "answer"],
    operator      |-> [key |-> "inbound",  does |-> "answer"],
    approval_list |-> [key |-> "resume",   does |-> "answer"],
    config_read   |-> [key |-> "settings", does |-> "answer"],
    llm_verify    |-> [key |-> "settings", does |-> "answer"],
    ws_ticket     |-> [key |-> "inbound",  does |-> "ticket"],
    inbound       |-> [key |-> "inbound",  does |-> "message"],
    invoke        |-> [key |-> "inbound",  does |-> "message"],
    webhook       |-> [key |-> "webhook",  does |-> "message"],
    resume        |-> [key |-> "resume",   does |-> "verdict"],
    approval      |-> [key |-> "resume",   does |-> "verdict"],
    config_write  |-> [key |-> "settings", does |-> "config"] ]

ASSUME CalledAssumption == Called \subseteq DOMAIN Endpoint

Unset == "unset"
TokenKind == {"inbound", "resume", "webhook", "settings"}

(* Defective: the other tokens are compared with the inbound token only. *)
ConstructibleLoosely(tokens) ==
  /\ tokens["inbound"] # Unset /\ tokens["resume"] # Unset
  /\ \A k \in TokenKind \ {"inbound"} : tokens[k] # tokens["inbound"]

(* The constructor wants the inbound token, with a resume sink the resume
   token, and no two tokens alike. *)
Constructible(tokens) ==
  /\ tokens["inbound"] # Unset /\ tokens["resume"] # Unset
  /\ \A k, l \in TokenKind : k # l => tokens[k] # tokens[l] \/ tokens[k] = Unset

VARIABLES token,     \* per kind: the secret it was given
          server,    \* start() and stop()
          handler,   \* the handler is set
          http,      \* per request: how far it is
          ticket,    \* per ticket: what was issued
          issued,    \* the store's map: tickets in the order of their issue
          socket     \* per ticket: the socket it became

webVars == <<token, server, handler, http, ticket, issued, socket>>

NoHttp   == [at |-> "page", bearer |-> Unset, pc |-> "new", did |-> "none"]
NoTicket == [user |-> "nobody", stale |-> FALSE]
NoSocket == [user |-> "nobody", state |-> "none"]

WebInit ==
  /\ token \in {t \in [TokenKind -> Secret \cup {Unset}] : Constructible(t)}
  /\ server = "down" /\ handler = FALSE
  /\ http = [r \in Http |-> NoHttp]
  /\ ticket = [k \in Ticket |-> NoTicket]
  /\ issued = << >>
  /\ socket = [k \in Ticket |-> NoSocket]

-----------------------------------------------------------------------------
(* start(): the handler first, then the port. *)
Listen ==
  /\ server = "down"
  /\ server' = "up" /\ handler' = TRUE
  /\ UNCHANGED <<token, http, ticket, issued, socket>>

(* A request comes in while the server accepts, which it does until the last
   socket is gone: it is routed and its token looked at before its body is
   read. *)
Authorised(e, bearer) ==
  \/ Endpoint[e].key = "none"
  \/ token[Endpoint[e].key] # Unset /\ bearer = token[Endpoint[e].key]

Accepting == server \in {"up", "draining"}

Arrive(r, e, bearer) ==
  /\ Accepting /\ http[r].pc = "new"
  /\ http' = [http EXCEPT ![r] =
       [at |-> e, bearer |-> bearer, did |-> "none",
        pc |-> IF Authorised(e, bearer) THEN "body" ELSE "refused"]]
  /\ UNCHANGED <<token, server, handler, ticket, issued, socket>>

Replies(r, pc, did) == http' = [http EXCEPT ![r].pc = pc, ![r].did = did]

(* 400, 413, 429, 501: the body does not read, lacks something, or the rate
   is exceeded. *)
Decline(r) ==
  /\ http[r].pc = "body" /\ Endpoint[http[r].at].key # "none"
  /\ Replies(r, "declined", "none")
  /\ UNCHANGED <<token, server, handler, ticket, issued, socket>>

Serve(r) ==
  /\ http[r].pc = "body" /\ Endpoint[http[r].at].does \in {"answer", "verdict", "config"}
  /\ Replies(r, "served", Endpoint[http[r].at].does)
  /\ UNCHANGED <<token, server, handler, ticket, issued, socket>>

(* 202 whether or not there is a handler: this.handler?.(...). *)
Accept(r) ==
  /\ http[r].pc = "body" /\ Endpoint[http[r].at].does = "message"
  /\ Replies(r, "accepted", IF handler THEN "message" ELSE "none")
  /\ UNCHANGED <<token, server, handler, ticket, issued, socket>>

(* issue(): the stale tickets go, then, at the cap, the oldest. *)
Fresh(k) == ~ticket[k].stale

Unexpired == Subsequence(issued, {i \in DOMAIN issued : Fresh(issued[i])})

Room(kept) == IF Len(kept) >= TicketCap THEN Tail(kept) ELSE kept

IssueTicket(r, k, u) ==
  /\ http[r].pc = "body" /\ Endpoint[http[r].at].does = "ticket"
  /\ ticket[k] = NoTicket
  /\ ticket' = [ticket EXCEPT ![k] = [user |-> u, stale |-> FALSE]]
  /\ issued' = Append(Room(Unexpired), k)
  /\ Replies(r, "served", "ticket")
  /\ UNCHANGED <<token, server, handler, socket>>

(* The ticket's time is over. *)
TicketExpires(k) ==
  /\ ticket[k] # NoTicket /\ ~ticket[k].stale
  /\ ticket' = [ticket EXCEPT ![k].stale = TRUE]
  /\ UNCHANGED <<token, server, handler, http, issued, socket>>

Held(k) == \E i \in 1..Len(issued) : issued[i] = k

Opens(k) == socket' = [socket EXCEPT ![k] = [user |-> ticket[k].user, state |-> "open"]]

(* Defective: the ticket stays in the store. *)
UpgradeKeeping(k) ==
  /\ Accepting /\ Held(k)
  /\ IF Fresh(k) /\ server = "up" THEN Opens(k) ELSE UNCHANGED socket
  /\ UNCHANGED <<token, server, handler, http, ticket, issued>>

(* An upgrade: the ticket leaves the store whatever comes of it; a fresh one
   becomes a socket, unless the sockets are being closed. *)
Upgrade(k) ==
  /\ Accepting /\ Held(k)
  /\ issued' = Subsequence(issued, {i \in DOMAIN issued : issued[i] # k})
  /\ IF Fresh(k) /\ server = "up" THEN Opens(k) ELSE UNCHANGED socket
  /\ UNCHANGED <<token, server, handler, http, ticket>>

(* The peer goes, or fails. *)
Hangup(k) ==
  /\ socket[k].state \in {"open", "closing"}
  /\ socket' = [socket EXCEPT ![k].state = "closed"]
  /\ UNCHANGED <<token, server, handler, http, ticket, issued>>

Closing == [k \in Ticket |-> IF socket[k].state = "open"
                               THEN [socket[k] EXCEPT !.state = "closing"] ELSE socket[k]]

(* Defective: the handler is let go of before the requests are gone. *)
StopServerForgetting ==
  /\ server = "up"
  /\ server' = "draining" /\ handler' = FALSE /\ socket' = Closing
  /\ UNCHANGED <<token, http, ticket, issued>>

(* stop(): the sockets are told to close; when they are gone the server takes
   no more requests; when those it had are answered the handler is let go of.
   A gateway starts and stops it once. *)
StopServer ==
  /\ server = "up"
  /\ server' = "draining" /\ socket' = Closing
  /\ UNCHANGED <<token, handler, http, ticket, issued>>

SocketsGone ==
  /\ server = "draining"
  /\ \A k \in Ticket : socket[k].state # "closing"
  /\ server' = "closing"
  /\ UNCHANGED <<token, handler, http, ticket, issued, socket>>

Closed ==
  /\ server = "closing"
  /\ \A r \in Http : http[r].pc # "body"
  /\ server' = "stopped" /\ handler' = FALSE
  /\ UNCHANGED <<token, http, ticket, issued, socket>>

WebNext ==
  \/ Listen \/ StopServer \/ SocketsGone \/ Closed
  \/ \E r \in Http : \/ \E e \in Called, s \in Secret \cup {Unset} : Arrive(r, e, s)
                     \/ Decline(r) \/ Serve(r) \/ Accept(r)
                     \/ \E k \in Ticket, u \in WebUser : IssueTicket(r, k, u)
  \/ \E k \in Ticket : TicketExpires(k) \/ Upgrade(k) \/ Hangup(k)

WebSpec == WebInit /\ [][WebNext]_webVars

-----------------------------------------------------------------------------
WebTypeOK ==
  /\ token \in [TokenKind -> Secret \cup {Unset}]
  /\ server \in {"down", "up", "draining", "closing", "stopped"} /\ handler \in BOOLEAN
  /\ http \in [Http -> [at : DOMAIN Endpoint, bearer : Secret \cup {Unset},
                        pc : {"new", "body", "refused", "declined", "served", "accepted"},
                        did : {"none", "answer", "ticket", "message", "verdict", "config"}]]
  /\ ticket \in [Ticket -> [user : WebUser \cup {"nobody"}, stale : BOOLEAN]]
  /\ issued \in Seq(Ticket) /\ Len(issued) <= TicketCap
  /\ socket \in [Ticket -> [user : WebUser \cup {"nobody"},
                            state : {"none", "open", "closing", "closed"}]]

(* Whatever tokens the constructor lets through, who holds the token of one
   kind gets nothing done that another kind is for: with the inbound token
   nobody gives a verdict or writes the settings, and the webhook's opens
   neither the tickets nor the consoles (webchat.ts:403, :964). *)
TokensOpenTheirOwn ==
  \A r \in Http : http[r].did # "none" =>
    \A k \in TokenKind : token[k] # Unset /\ http[r].bearer = token[k] =>
      Endpoint[http[r].at].key \in {k, "none"}

(* A ticket becomes one socket, its user's, while it is fresh: neither a
   retry nor an upgrade under way when it expires or is evicted opens another
   (ticket_store.ts:76). *)
TicketsOpenOneSocket ==
  [][\A k \in Ticket : socket'[k].state = "open" /\ socket[k].state # "open" =>
       /\ socket[k].state = "none"
       /\ ~ticket[k].stale
       /\ socket'[k].user = ticket[k].user]_webVars

(* Stopping loses nothing that was promised: a message answered with 202 was
   handed to the handler, also when the stop came while its body was read or
   before it was sent, and no socket outlives the server's port
   (webchat.ts:586). *)
StopLosesNothing ==
  /\ \A r \in Http : http[r].pc = "accepted" => http[r].did = "message"
  /\ server \in {"closing", "stopped"} => \A k \in Ticket : socket[k].state \in {"none", "closed"}
=============================================================================
