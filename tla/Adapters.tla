------------------------------ MODULE Adapters ------------------------------
(***************************************************************************)
(* The surface adapters, packages adapters-...: each stands between a way   *)
(* in (a chat service, mail, a tool client, HTTP, a terminal) and the      *)
(* kernel, with the same operations: initialize(), start(), stop(),        *)
(* health(), and the dispatch of a request to a command's handler under    *)
(* the kernel's permissions, counted by a gauge.                           *)
(*                                                                         *)
(* They differ in where they await, what they check first and what they    *)
(* remember of a failure.  A behaviour is that of one adapter, `kind`;     *)
(* lifecycle calls, handlers, timers, replies and the connection to the    *)
(* service outside interleave at every await.                              *)
(***************************************************************************)
EXTENDS Integers, FiniteSets

CONSTANTS
    AdapterKinds,     \* the adapters to run: members of AllKinds
    AdapterCallers,   \* of the lifecycle operations, one call at a time each
    AdapterRequests,  \* the requests that come in, once each
    AdapterCommands   \* what they ask: an action of the kernel, or another word

AllKinds == {"telegram-polling", "telegram-webhook", "discord", "mcp",
             "email", "whatsapp", "webhook", "cli"}

Telegram == {"telegram-polling", "telegram-webhook"}
HostFed  == {"email", "whatsapp"}       \* a host hands every message over
Remote   == {"telegram-polling", "discord", "mcp"}    \* start() awaits a connection

Nothing == "none"

ASSUME AdapterAssumption == AdapterKinds \subseteq AllKinds /\ IsFiniteSet(AdapterRequests)

VARIABLES
    kind,
    prepared,      \* the bot, client, server or table made by initialize()
    started,
    lastError,
    connection,    \* to the service outside: "up" or "down"
    disturbed,     \* polling broke, a stop() failed, or two of them overlapped
    callers, requests,
    gauge          \* activeRequests

adapterVars ==
    <<kind, prepared, started, lastError, connection, disturbed, callers, requests, gauge>>

lifecycle == <<kind, prepared, started, connection, disturbed, callers>>

-----------------------------------------------------------------------------
(* The permissions of the kernel (core/src/kernel-permissions.ts)           *)

AdminActions == {"start", "stop", "status", "health", "modules", "config", "version",
                 "registerModule", "unregisterModule"}

ViewerActions == {"status", "health", "modules", "config", "version"}

(* mutant: the role is not looked at                                        *)
CanAnyway(role, action) == action \in AdminActions

Can(role, action) == action \in IF role = "admin" THEN AdminActions ELSE ViewerActions

-----------------------------------------------------------------------------

AdapterInit ==
    /\ kind \in AdapterKinds
    /\ prepared = FALSE /\ started = FALSE /\ lastError = FALSE
    /\ connection = "down" /\ disturbed = FALSE
    /\ callers = [c \in AdapterCallers |-> "idle"]
    /\ requests = [r \in AdapterRequests |->
                      [pc |-> "idle", role |-> Nothing, command |-> Nothing, ran |-> Nothing, reply |-> Nothing]]
    /\ gauge = 0

CallMoves(c, pc) == callers' = [callers EXCEPT ![c] = pc]

Underway(pcs) == \E c \in AdapterCallers : callers[c] \in pcs

(* E-mail and WhatsApp only check their configuration: it cannot change,    *)
(* and the host does not start an adapter it refused.                       *)
Initialize(c) ==
    /\ callers[c] \in {"idle", "threw"} /\ kind \notin HostFed
    /\ prepared' = TRUE
    /\ CallMoves(c, IF kind \in Telegram /\ ~prepared THEN "initializing" ELSE "idle")
    /\ UNCHANGED <<kind, started, lastError, connection, disturbed, requests, gauge>>

(* The bot asks the service who it is.  The bot stays when that fails.      *)
InitSettles(c, ok) ==
    /\ callers[c] = "initializing"
    /\ lastError' = (lastError \/ ~ok)
    /\ CallMoves(c, IF ok THEN "idle" ELSE "threw")
    /\ UNCHANGED <<kind, prepared, started, connection, disturbed, requests, gauge>>

CanStart == prepared \/ kind \in HostFed

StartRefused(c) ==
    /\ callers[c] = "idle" /\ ~CanStart
    /\ CallMoves(c, "threw")
    /\ UNCHANGED <<kind, prepared, started, lastError, connection, disturbed, requests, gauge>>

(* A started adapter returns, but the Discord client logs in again; a bot   *)
(* that connects or polls lets a second start() return.  The webhook keeps  *)
(* no flag.                                                                 *)
StartAdapter(c) ==
    /\ callers[c] \in {"idle", "threw"} /\ CanStart
    /\ IF kind \in Remote
       THEN /\ UNCHANGED <<started, lastError>>
            /\ CallMoves(c, IF \/ started
                               \/ kind = "telegram-polling"
                                  /\ (connection = "up" \/ Underway({"starting"}))
                            THEN "idle" ELSE "starting")
       ELSE /\ started' = (kind # "webhook")
            /\ lastError' = (lastError /\ ~(kind \in HostFed /\ ~started))
            /\ CallMoves(c, "idle")
    /\ UNCHANGED <<kind, prepared, connection, disturbed, requests, gauge>>

(* start() of a polling bot goes on until polling ends; the one of Discord  *)
(* throws if the state has gone meanwhile, and the one of MCP if another    *)
(* has connected.                                                           *)
Connects(c) ==
    /\ callers[c] = "starting" /\ ~(kind = "mcp" /\ connection = "up")
    /\ connection' = "up"
    /\ IF kind = "discord" THEN UNCHANGED <<started, lastError>>
       ELSE started' = TRUE /\ lastError' = FALSE
    /\ CallMoves(c, CASE kind = "telegram-polling" -> "polling"
                      [] kind = "mcp"              -> "idle"
                      [] kind = "discord"          -> IF prepared THEN "idle" ELSE "threw")
    /\ UNCHANGED <<kind, prepared, disturbed, requests, gauge>>

ConnectFails(c) ==
    /\ callers[c] = "starting"
    /\ CallMoves(c, "threw")
    /\ UNCHANGED <<kind, prepared, started, lastError, connection, disturbed, requests, gauge>>

PollingEnds(c) ==
    /\ callers[c] = "polling" /\ connection = "down"
    /\ CallMoves(c, "idle")
    /\ UNCHANGED <<kind, prepared, started, lastError, connection, disturbed, requests, gauge>>

(* The service refuses the bot: start() rejects, and nothing else knows.    *)
PollingBreaks(c) ==
    /\ callers[c] = "polling" /\ connection = "up"
    /\ CallMoves(c, "threw")
    /\ connection' = "down" /\ disturbed' = TRUE
    /\ UNCHANGED <<kind, prepared, started, lastError, requests, gauge>>

(* Telegram and MCP stop what is started, Discord what has a state; the     *)
(* webhook's stop() only logs.  Polling stops at once, the rest of stop()   *)
(* awaits the service.                                                      *)
CanStop == IF kind = "discord" THEN prepared ELSE started

StopAdapter(c) ==
    /\ callers[c] \in {"idle", "threw"} /\ CanStop
    /\ IF kind \in Remote
       THEN /\ CallMoves(c, "stopping") /\ UNCHANGED started
            /\ connection' = IF kind = "telegram-polling" THEN "down" ELSE connection
            /\ disturbed' = (disturbed \/ Underway({"stopping"}))
       ELSE CallMoves(c, "idle") /\ started' = FALSE /\ UNCHANGED <<connection, disturbed>>
    /\ UNCHANGED <<kind, prepared, lastError, requests, gauge>>

(* mutant: the flag is cleared when stop() begins                           *)
StopForgets(c) ==
    /\ callers[c] = "stopping"
    /\ connection' = "down"
    /\ CallMoves(c, "idle")
    /\ UNCHANGED <<kind, prepared, started, lastError, disturbed, requests, gauge>>

(* Discord's stop() throws if another one has taken the state.              *)
StopSettles(c) ==
    /\ callers[c] = "stopping"
    /\ connection' = IF kind = "telegram-polling" THEN connection ELSE "down"
    /\ started' = FALSE
    /\ prepared' = (prepared /\ kind # "discord")
    /\ CallMoves(c, IF kind = "discord" /\ ~prepared THEN "threw" ELSE "idle")
    /\ UNCHANGED <<kind, lastError, disturbed, requests, gauge>>

StopFails(c) ==
    /\ callers[c] = "stopping" /\ callers' = [callers EXCEPT ![c] = "threw"]
    /\ disturbed' = TRUE
    /\ UNCHANGED <<kind, prepared, started, lastError, connection, requests, gauge>>

(* health()                                                                 *)
BotHealth == IF lastError THEN "failed" ELSE IF started THEN "healthy" ELSE "degraded"

HostFedHealth == IF ~started THEN "degraded" ELSE IF lastError THEN "failed" ELSE "healthy"

DiscordHealth == IF connection = "up" THEN "healthy" ELSE "degraded"

WebhookHealth == IF lastError THEN "degraded" ELSE "healthy"

CliHealth == IF started THEN "healthy" ELSE "degraded"

Health ==
    CASE kind \in HostFed   -> HostFedHealth
      [] kind \notin HostFed /\ ~prepared -> "unknown"
      [] kind = "discord" /\ prepared -> DiscordHealth
      [] kind = "webhook" /\ prepared -> WebhookHealth
      [] kind = "cli" /\ prepared -> CliHealth
      [] kind \in Telegram \cup {"mcp"} /\ prepared -> BotHealth

-----------------------------------------------------------------------------
(* The dispatch of a request                                                *)

Verbs == {"start", "stop", "status", "health", "modules", "config", "version"}

TelegramCommands == Verbs
DiscordCommands == Verbs
McpTools == Verbs
WhatsAppCommands == Verbs \cup {"help"}
CliCommands == (Verbs \ {"modules"}) \cup {"plugins"}
WebhookEvents == Verbs \ {"version"}

(* Mail knows 'plugins' for the 'modules' of its table, and serves neither. *)
EmailCommands == (Verbs \cup {"help"}) \ {"modules"}

Known(command) ==
    command \in CASE kind \in Telegram -> TelegramCommands
                  [] kind = "discord"  -> DiscordCommands
                  [] kind = "mcp"      -> McpTools
                  [] kind = "email"    -> EmailCommands
                  [] kind = "whatsapp" -> WhatsAppCommands
                  [] kind = "cli"      -> CliCommands
                  [] kind = "webhook"  -> WebhookEvents

(* What a command's handler may come to: the kernel refuses what changes    *)
(* it; Discord's handlers throw then, and the webhook's takes events it     *)
(* does not know.                                                           *)
Outcomes(command) ==
    CASE kind = "webhook" /\ ~Known(command) -> {"error"}
      [] command \in {"start", "stop", "plugins"} /\ kind # "discord" /\ Known(command) ->
            {"ok", "error", "threw"}
      [] OTHER -> {"ok", "threw"}

(* The action a command requires; 'plugins' checks by itself, at least this. *)
Requires(command) ==
    CASE command \in {"help", "modules"} /\ kind = "whatsapp" -> "status"
      [] command = "help" /\ kind # "whatsapp" -> "status"
      [] command = "plugins" -> "status"
      [] OTHER -> command

(* The tool server takes every caller for an admin unless its host says     *)
(* otherwise, and the webhook has no roles.                                 *)
RoleOf(role) == IF kind \in {"mcp", "webhook"} THEN "admin" ELSE role

Permitted(role, command) == Can(RoleOf(role), Requires(command))

(* Where requests can come from: the service, once connected; the chat and  *)
(* tool services only let through what was registered with them.            *)
Reachable(command) ==
    CASE kind \in {"telegram-polling", "mcp"} -> connection = "up" /\ Known(command)
      [] kind = "telegram-webhook" -> prepared /\ Known(command)
      [] kind = "discord" -> connection = "up" /\ prepared
      [] kind \in {"email", "whatsapp", "webhook", "cli"} -> TRUE

Available == CASE kind \in HostFed -> started
               [] kind \in {"webhook", "cli"} -> prepared
               [] kind \notin HostFed \cup {"webhook", "cli"} -> TRUE

(* Chat services are sent the reply, and the sending is awaited; the others *)
(* hand it back.                                                            *)
Awaited(reply) == IF kind \in Telegram \cup {"discord"} THEN "replying" ELSE "done"

Request(r, pc, reply) ==
    requests' = [requests EXCEPT ![r].pc = pc, ![r].reply = reply]

(* mutant: a refused request stays counted                                  *)
RefuseCounted(r, role, command, reply) ==
    /\ requests' = [requests EXCEPT ![r].pc = Awaited(reply), ![r].role = role,
                                    ![r].command = command, ![r].reply = reply]
    /\ gauge' = gauge + 1

(* What is refused before a handler runs is counted for that moment only.   *)
Refuse(r, role, command, reply) ==
    /\ requests' = [requests EXCEPT ![r].pc = Awaited(reply), ![r].role = role,
                                    ![r].command = command, ![r].reply = reply]
    /\ UNCHANGED gauge

Begin(r, role, command, pc) ==
    /\ requests' = [requests EXCEPT ![r].pc = pc, ![r].role = role, ![r].command = command,
                                    ![r].ran = IF pc = "handling" THEN "running" ELSE Nothing]
    /\ gauge' = gauge + 1

ReceiveUnavailable(r, role, command) ==
    /\ requests[r].pc = "idle" /\ Reachable(command) /\ ~Available
    /\ Refuse(r, role, command, "unavailable")
    /\ UNCHANGED <<lifecycle, lastError>>

ReceiveUnknown(r, role, command) ==
    /\ requests[r].pc = "idle" /\ Reachable(command) /\ Available
    /\ kind # "webhook" /\ ~Known(command)
    /\ Refuse(r, role, command, "unknown")
    /\ UNCHANGED <<lifecycle, lastError>>

ReceiveDenied(r, role, command) ==
    /\ requests[r].pc = "idle" /\ Reachable(command) /\ Available
    /\ kind # "webhook" /\ Known(command) /\ ~Permitted(role, command)
    /\ Refuse(r, role, command, "denied")
    /\ UNCHANGED <<lifecycle, lastError>>

(* The webhook awaits the body first.                                       *)
Receive(r, role, command) ==
    /\ requests[r].pc = "idle" /\ Reachable(command) /\ Available
    /\ \/ kind = "webhook" /\ Begin(r, role, command, "parsing")
       \/ /\ kind # "webhook" /\ Known(command) /\ Permitted(role, command)
          /\ Begin(r, role, command, "handling")
    /\ UNCHANGED <<lifecycle, lastError>>

Uncount == gauge' = IF gauge > 0 THEN gauge - 1 ELSE 0

(* The body is too large or no JSON: the adapter remembers it.  Without a   *)
(* valid signature or a route it does not.                                  *)
ParseFails(r) ==
    /\ requests[r].pc = "parsing" /\ Uncount
    /\ Request(r, "done", "error") /\ lastError' = TRUE
    /\ UNCHANGED lifecycle

ParseSettles(r) ==
    /\ requests[r].pc = "parsing"
    /\ \/ Request(r, "done", "denied") /\ Uncount
       \/ Request(r, "done", "unknown") /\ Uncount
       \/ /\ UNCHANGED gauge
          /\ requests' = [requests EXCEPT ![r].pc = "handling", ![r].ran = "running"]
    /\ UNCHANGED <<lifecycle, lastError>>

(* An exception is remembered but by Discord and the terminal.  Discord     *)
(* sends the reply inside the block that counts.  A webhook's handler that  *)
(* settles after the timer is not heard.                                    *)
HandlerSettles(r, outcome) ==
    /\ requests[r].ran = "running" /\ outcome \in Outcomes(requests[r].command)
    /\ LET heard == requests[r].pc = "handling"
           reply == IF outcome = "ok" THEN "ok" ELSE "error"
       IN  /\ requests' = [requests EXCEPT
                  ![r].ran = outcome,
                  ![r].pc = IF heard THEN Awaited(reply) ELSE @,
                  ![r].reply = IF heard THEN reply ELSE @]
           /\ IF heard /\ kind # "discord" THEN Uncount ELSE UNCHANGED gauge
           /\ lastError' = (\/ lastError
                            \/ heard /\ outcome = "threw" /\ kind \notin {"discord", "cli"})
    /\ UNCHANGED lifecycle

WebhookTimesOut(r) ==
    /\ kind = "webhook" /\ requests[r].pc = "handling"
    /\ Request(r, "done", "error") /\ Uncount /\ lastError' = TRUE
    /\ UNCHANGED lifecycle

(* The reply arrives, or is lost: Discord then sends an error in place of   *)
(* what the handler answered, once, and the chat's framework gets the       *)
(* exception otherwise.                                                     *)
ReplySettles(r, sent) ==
    /\ requests[r].pc = "replying"
    /\ LET again == kind = "discord" /\ ~sent /\ requests[r].reply = "ok" IN
       /\ requests' = [requests EXCEPT
              ![r].pc = IF again THEN @ ELSE "done",
              ![r].reply = IF sent THEN @ ELSE IF again THEN "error" ELSE "lost"]
       /\ IF kind = "discord" /\ ~again /\ requests[r].ran # Nothing THEN Uncount
          ELSE UNCHANGED gauge
    /\ UNCHANGED <<lifecycle, lastError>>

-----------------------------------------------------------------------------
(* What each adapter does of this                                           *)

Connecting(c) ==
    \/ Initialize(c) \/ StartRefused(c) \/ StartAdapter(c) \/ Connects(c) \/ ConnectFails(c)
    \/ StopAdapter(c) \/ StopSettles(c) \/ StopFails(c)

TelegramLives(c) ==
    /\ kind \in Telegram
    /\ \/ Connecting(c) \/ PollingEnds(c) \/ PollingBreaks(c)
       \/ \E ok \in BOOLEAN : InitSettles(c, ok)

DiscordLives(c) == kind = "discord" /\ Connecting(c)

McpLives(c) == kind = "mcp" /\ Connecting(c)

EmailLives(c) == kind = "email" /\ (StartAdapter(c) \/ StopAdapter(c))

WhatsAppLives(c) == kind = "whatsapp" /\ (StartAdapter(c) \/ StopAdapter(c))

WebhookLives(c) == kind = "webhook" /\ (Initialize(c) \/ StartRefused(c) \/ StartAdapter(c))

CliLives(c) == kind = "cli" /\ (Initialize(c) \/ StartRefused(c) \/ StartAdapter(c) \/ StopAdapter(c))

Asked(r, Reception(_, _, _)) ==
    \E role \in {"admin", "viewer"}, command \in AdapterCommands : Reception(r, role, command)

Handled(r) == \E outcome \in {"ok", "error", "threw"} : HandlerSettles(r, outcome)

Replied(r) == \E sent \in BOOLEAN : ReplySettles(r, sent)

TelegramDispatches(r) ==
    /\ kind \in Telegram
    /\ Asked(r, ReceiveDenied) \/ Asked(r, Receive) \/ Handled(r) \/ Replied(r)

DiscordDispatches(r) ==
    /\ kind = "discord"
    /\ \/ Asked(r, ReceiveUnknown) \/ Asked(r, ReceiveDenied) \/ Asked(r, Receive)
       \/ Handled(r) \/ Replied(r)

McpDispatches(r) == kind = "mcp" /\ (Asked(r, Receive) \/ Handled(r))

HostHands(r) ==
    \/ Asked(r, ReceiveUnavailable) \/ Asked(r, ReceiveUnknown)
    \/ Asked(r, ReceiveDenied) \/ Asked(r, Receive) \/ Handled(r)

EmailDispatches(r) == kind = "email" /\ HostHands(r)

WhatsAppDispatches(r) == kind = "whatsapp" /\ HostHands(r)

CliDispatches(r) == kind = "cli" /\ HostHands(r)

WebhookDispatches(r) ==
    /\ kind = "webhook"
    /\ \/ Asked(r, ReceiveUnavailable) \/ Asked(r, Receive) \/ ParseFails(r)
       \/ ParseSettles(r) \/ WebhookTimesOut(r) \/ Handled(r)

AdapterNext ==
    \/ \E c \in AdapterCallers :
          \/ TelegramLives(c) \/ DiscordLives(c) \/ McpLives(c) \/ EmailLives(c)
          \/ WhatsAppLives(c) \/ WebhookLives(c) \/ CliLives(c)
    \/ \E r \in AdapterRequests :
          \/ TelegramDispatches(r) \/ DiscordDispatches(r) \/ McpDispatches(r)
          \/ EmailDispatches(r) \/ WhatsAppDispatches(r) \/ WebhookDispatches(r)
          \/ CliDispatches(r)

(* The timers of the webhook fire, and bodies are parsed.                   *)
Parses(r) == ParseSettles(r) \/ ParseFails(r)

AdapterFairness == \A r \in AdapterRequests : WF_adapterVars(WebhookTimesOut(r)) /\ WF_adapterVars(Parses(r))

AdapterSpec == AdapterInit /\ [][AdapterNext]_adapterVars

-----------------------------------------------------------------------------

CallStages == {"idle", "threw", "initializing", "starting", "polling", "stopping"}

Replies == {Nothing, "ok", "error", "denied", "unknown", "unavailable", "lost"}

RequestRecords ==
    [pc : {"idle", "parsing", "handling", "replying", "done"},
     role : {Nothing, "admin", "viewer"}, command : {Nothing} \cup AdapterCommands,
     ran : {Nothing, "running", "ok", "error", "threw"}, reply : Replies]

(* The state of an adapter keeps its type, and what it reports is one of    *)
(* the four statuses (health()).                                            *)
AdapterTypeOK ==
    /\ kind \in AdapterKinds
    /\ {prepared, started, lastError, disturbed} \subseteq BOOLEAN
    /\ connection \in {"up", "down"}
    /\ callers \in [AdapterCallers -> CallStages]
    /\ requests \in [AdapterRequests -> RequestRecords]
    /\ Health \in {"unknown", "degraded", "healthy", "failed"}

(* A request from its first await to its last; Discord awaits the sending   *)
(* of a reply within.                                                       *)
Counted(q) ==
    \/ q.pc \in {"parsing", "handling"}
    \/ q.pc = "replying" /\ kind = "discord" /\ q.ran # Nothing

(* The gauge of active requests is their number on every path out of the    *)
(* dispatch: no branch leaves one counted or takes one away twice, which    *)
(* the clamp at zero would hide (dispatchCommand(), handleMessage(),        *)
(* handle(), dispatchInteraction(), dispatch(), handleCommand()).           *)
GaugeCountsTheRequests ==
    gauge = Cardinality({r \in AdapterRequests : Counted(requests[r])})

(* A command runs only for a role the kernel's permissions allow it, from   *)
(* an adapter that was ready; the reply says ok only if it ran to its end,  *)
(* and says refused only if nothing ran.                                    *)
RepliesTellWhatRan ==
    \A r \in AdapterRequests :
        LET q == requests[r] IN
        /\ q.ran # Nothing =>
              /\ Known(q.command) \/ kind = "webhook"
              /\ \/ Requires(q.command) \in ViewerActions
                 \/ q.role = "admin" \/ kind \in {"mcp", "webhook"}
        /\ q.reply = "ok" => q.ran = "ok" /\ Known(q.command)
        /\ q.reply \in {"denied", "unknown", "unavailable"} => q.ran = Nothing
        /\ q.reply = "error" => q.ran # Nothing \/ kind = "webhook"

(* Once no lifecycle call is under way, the flag agrees with the            *)
(* connection, in whatever order initialize(), start() and stop() were      *)
(* called and failed; so a bot that reports healthy does poll               *)
(* (TelegramAdapter, McpAdapter start(), stop()).  Polling that breaks of   *)
(* itself, a stop() that fails and two that overlap are not covered: there  *)
(* the two do come apart.                                                   *)
StartedFollowsTheConnection ==
    kind \in {"telegram-polling", "mcp"} /\ ~disturbed
        /\ ~Underway({"initializing", "starting", "stopping"})
            => (started = (connection = "up"))

(* The adapters: a gauge, a flag and a reply say what is under way, what is *)
(* connected and what was done.                                             *)
AdaptersTellWhatIs ==
    GaugeCountsTheRequests /\ RepliesTellWhatRan /\ StartedFollowsTheConnection

(* A request that a webhook took and has not answered; withTimeout() sees   *)
(* to it that it does, whatever its handler does.                           *)
WebhookUnanswered(r) == kind = "webhook" /\ requests[r].pc \notin {"idle", "done"}
=============================================================================
