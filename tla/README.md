# Operator OS in TLA+

Operator OS is an agent gateway written in Go. Messages come in from chat services,
an agent loop answers them with the help of a language model and tools, and the answers
go out again through the chat services. A cron service and a heartbeat start turns of
their own; subagents, managed containers, MCP servers and stores of credentials, accounts
and subscriptions stand around them. This directory holds TLA+ models of the parts where
goroutines, files and timers meet, TLC configurations that check them on small instances,
and proofs that TLAPS checks for every instance.

Contents: [the system](#the-system), [modules](#modules-and-their-code),
[runs](#runs), [findings](#findings), [fairness](#fairness), [proofs](#proofs),
[limits](#what-is-only-model-checked-and-what-is-not-modelled), [plan](#plan).

    tlc -config MCCron.cfg MCCron        # any run: -config <cfg> <module>
    tlapm CronServiceProofs.tla          # any module whose name ends in Proofs

## The system

    chat service --> channel --HandleMessage--> bus.inbound --> AgentLoop.Run --+
                        ^                          ^             ^     ^        |
                        |                       subagents        |     |     provider
                     worker <-- dispatcher <-- bus.outbound <----+     |   (FallbackChain,
                        |                         ^                    |    auth.json)
                 typing, reaction,                |              cron, heartbeat
                   placeholder                message tool        goroutines

### The way of a message

| Component | State | Operations | What is hard | What makes it correct |
|---|---|---|---|---|
| message bus (`pkg/bus/bus.go`) | three buffered channels, `done`, `closed` | Publish, Consume, Subscribe, Close | Go's `select` picks any ready case; Close races with both sides | FIFO, nothing lost while open, Close releases everyone |
| channel manager (`pkg/channels/manager.go`) | channel and worker maps, worker queues | StartAll, dispatchers, workers, StopAll, UnregisterChannel | full queues, retries, closing queues that are in use, waiting under a lock | order per chat, nothing lost while running, no panic, the lock is released |
| indicators (`manager.go`, `base.go`) | three maps keyed by chat | HandleMessage, Record*, preSend, TTL janitor | several messages of a chat share one entry; the janitor reads and deletes in two steps | a placeholder is used once, typing stops, entries go away |
| agent loop and message tool (`pkg/agent/loop.go`, `pkg/tools/message.go`, `registry.go`) | one message tool per agent: default chat and `sentInRound` | Run, processMessage, runAgentLoop, runLLMIteration, tool calls | turns of three goroutines share the tool without a lock | a user is answered exactly once, in the right chat; a turn ends unless a call without a deadline holds it |
| session history (`pkg/session/manager.go`, `loop.go`, `context.go`) | history, summary, session file, `summarizing` keys | AddFullMessage, Save, forceCompression, maybeSummarize, summarizeSession, sanitizeHistoryForProvider, loadSessions | a summariser in the background, read-then-write, two renames in any order, crashes | order, no duplicate, well-formed prompts, nothing forgotten silently |
| provider fallback (`pkg/providers/fallback.go`, `cooldown.go`) | an entry per provider: counts and two deadlines | Execute, IsAvailable, MarkFailure, MarkSuccess | one tracker for all turns; calls come back in any order; backoff against window | a failure never shortens a cooldown; providers recover |
| cron service (`pkg/cron/service.go`, `pkg/tools/cron.go`, `cmd/operator/internal/cron`) | jobs in memory, `jobs.json`, the loop goroutine | Start, Stop, checkJobs, executeJobByID, Add/Update/Remove/EnableJob, load and save | the handler runs without the mutex; crashes, failed saves; a second process rewrites the file | a one-time job runs at most once, never early, and does run; a removed job stays removed |

### Channels

| Component | State | Operations | What is hard | What makes it correct |
|---|---|---|---|---|
| WeCom AI bot (`pkg/channels/wecom/aibot.go`) | two maps of stream tasks, an answer channel each | callbacks, polls, Send, cleanup, Stop | a poll's deadline closes the stream while a reply is on its way | the maps agree, a `response_url` is used once, Send returns |
| OneBot (`pkg/channels/onebot/onebot.go`) | the connection, pending requests, a ring of ids | connect, listen, sendAPIRequest, React, Stop | listeners and requests of an old connection outlive it | a message is handled once, the channel dials again |
| operator channel (`pkg/channels/operator/operator.go`) | connections, their count, a write lock each | handshake, readLoop, pingLoop, broadcasts, Stop | writes without a deadline; a reader writes to other connections | ended connections are forgotten, Send ends |
| WhatsApp (`pkg/channels/whatsapp_native`) | client, store, WaitGroup, two flags | Start, events, reconnectWithBackoff, Stop | goroutines that use the client while Stop closes its store | the store outlives its users |

### Services in the background

| Component | State | Operations | What is hard | What makes it correct |
|---|---|---|---|---|
| subagents (`pkg/tools/subagent.go`, `spawn.go`) | tasks, the manager's mutex, the tool's origin | Spawn, runTask, the report | a report is published with the mutex held, on the queue of the only goroutine that empties it | Spawn returns, reports go home |
| OAuth credentials (`pkg/oauth`, `pkg/integrations/management_api.go`) | vault, a mutex per credential, retries | sweep, RefreshCredential, EnsureFresh, connect, disconnect, Stop | rotated refresh tokens, failed stores, copies read before the provider is asked | a token is presented once, what is due is tried |
| billing (`pkg/billing/webhook.go`, `plan_change.go`, `subscription.go`) | subscription rows | five events, ChangePlan | events late, repeated, overlapping; rows read and written whole | a row is canceled for its own subscription's sake; rows follow Stripe |
| NATS bus and workers (`pkg/bus/nats_bus.go`, `pkg/worker`) | the stream, loops, flags of Run and Stop | fetch, ack, process, publish, Run, Stop, Close | acknowledgement before processing, redelivery, crash | what was taken is processed |
| accounts (`pkg/users`, `pkg/admin`) | rows, verification tokens | register, verify, resend, profile, administration, delete | requests that read a row and write all of it later | deleted stays deleted, verified only with a token |
| MCP manager (`pkg/mcp/manager.go`) | sessions, `closed`, the count of calls | connect, CallTool, Close | calls of other goroutines go on while Run closes | Close is complete |
| heartbeat and state (`pkg/heartbeat/service.go`, `pkg/state/state.go`) | two copies of `state.json`, timer | Start, Stop, executeHeartbeat, sendResponse, SetLastChannel | the chat is looked up twice, in a copy of its own | the result follows the turn |
| managed services (`pkg/services/manager.go`) | a state per service and manager, the container | EnsureRunning, Stop, HealthCheck | a manager for each agent and command, one container name | a service is started once |
| model credentials (`pkg/auth/store.go` and the token sources) | `auth.json` | login, logout, refresh, project ID | load, change, save without a lock | what was granted last is stored |
| media store (`pkg/media/store.go`) | references in memory, files on disk | Store, ResolveWithMeta, CleanExpired | files are removed after the lock is released | a reference has its file, a file has an owner |

The components interact through the bus (messages), through direct calls (the loop calls
providers, tools and the session manager; the cron and heartbeat services call
`ProcessDirectWithChannel` and `ProcessHeartbeat`), through shared objects (the message tool,
the cooldown tracker, the session of a chat, the subagent manager) and through files
(`jobs.json`, session files, `state.json`, `auth.json`). Each model draws its boundary at one
of these: the bus is an input queue for ChannelManager, the outcome of a model call is a choice
in AgentLoop, the routed agent is an input there.

The remaining components are listed in `PROJECT.json` with the reason why they are not modelled.

## Modules and their code

**BoundedChannel, MessageBus.** BoundedChannel is the abstract promise: per queue a bounded
FIFO from which messages only go to receivers, until it is shut. MessageBus is `bus.go`:
`PublishBegin` reads the flag and the context, `PublishSend`/`PublishDone`/`PublishCancel` are
the cases of the select, likewise for consumers; `CloseFlag`, `CloseDone` and `CloseDrain` are
the steps of Close. The three channels have the same code and become `1..NumQueues`. Histories
record what was accepted, received and removed.

**CronService.** `store` is memory, `disk` the file. `Tick` moves the clock; `checkJobs`,
`ExecuteBegin`, `ExecuteEnd` are the loop goroutine with the handler outside the mutex;
`AddJob`/`UpdateJob` are the two calls of the cron tool with the stale copy between them
(`pending`); `CliLoad`/`CliAdd`/`CliEdit` are `operator cron`, a process of its own that rewrites
the file. Every save may fail (`saveStoreUnsafe`), every load may (`loadStore`), and `Crash`
and `Boot` restart the gateway from the file. Payloads and last-run fields are left out.

**ChannelManager.** A lane is a channel's text or media worker. `Subscribe`, `Lookup`, `Enqueue`
are the dispatcher: the worker is looked up under the lock and used after it. `WorkerRecv`,
`SendBegin`, `RateWait`, `Send`, `Backoff` are the worker. `Cancel`, `CloseBus`, `StopBegin` to
`StopEnd` are the gateway's shutdown, `UnregisterBegin` to `UnregisterEnd` the removal of a
channel. Sending on a closed Go channel sets `panicked`.

**AgentLoop.** A thread (Run, cron, heartbeat) runs one turn at a time. `Begin` routes a message
and sets the tool's context, `CallMessageTool` sets it again, `SendMessage` and `SendNothing`
are the tool's Execute, `Respond` decides what becomes of the response. With each turn the model
keeps whether another turn of its agent overlapped and whether this turn really sent something,
to compare with the shared flag. `Block` is a call that has no deadline: a tool of an MCP server, a model
behind a command-line program, a publish with Run's context.

**SessionHistory.** A message is its position in the log of everything ever appended, so order
and duplication are visible; a summary is the set of messages it was made from. Every call of
the session manager is a step, a Save is two (snapshot and rename). `Compressed` is the halving
of forceCompression, `Kept` is TruncateHistory, `Accepts` and `sanitizeHistoryForProvider` filter
what the provider sees. The messages that summarizeSession selects (`Valid`) are a set: the history
has the order of the log, so the set says all; `FirstPart` are those before its middle, which a long
history has summed up first. `excused` collects the messages whose loss the code accepts: dropped by
compression, overtaken by a late summary, or lost in a crash before the next save.

**ProviderGate, FallbackChain.** ProviderGate is the promise of the cooldown tracker: a failure
closes the provider for some time, no later failure opens it earlier, and no call starts at a
closed provider. FallbackChain is `Execute` over a shared tracker. Points in time are kept
relative to now, so time needs no bound. The refinement maps "closed" to the longer of the
standard and the billing cooldown.

**Presence.** `Indicate` is one of the three pipelines of HandleMessage; `preSend` takes the
entries of the chat, one map per step; `Expire`, `JanitorRead`, `JanitorDelete` are the TTL
janitor.

**WeComBot.** A task is its text message. `handleTextMessage` creates it, `handleStreamMessage`
and `Poll` are a poll in its steps (take the answer, or close the stream after the deadline),
`Send` finds the oldest task, then `Put` hands the reply to the stream and `Post` uses the
response_url. `Pass` lets a task grow old, `cleanupOldTasks` and `BotStop` cancel.

**OneBot.** `conn` is the field of the channel, `link` what the server knows of a connection.
`Listen` and `ReadMessage` are the listener (`dedupRing`, `dedupIdx` as in the code), `Call` an
API request up to its answer or timeout, `reconnectLoop` and `Connect` the loop, `UndoReaction`,
`Cancel` and `CloseConn` what the manager calls.

**OperatorChannel.** `walk` is what a goroutine (the worker in Send, a reader, Stop) has still to
visit of its snapshot of the connections: `Visit`, `LockConn`, `Written`. A write blocks when
`unread` has filled the network's window. `Handshake` checks the limit long before `Reading`
counts the connection.

**WhatsApp.** `StartReset` to `StartConnects` and `StopMark` to `ClearClient` are the statements of
Start and Stop, which the manager's lock keeps apart; `EndQR`, `eventHandler` and
`reconnectWithBackoff` are the goroutines between them. The WaitGroup is the set `Group`.

**Subagents.** `SetContextSpawn`, `Execute` and `Spawn` are a call of the tool, `StartTask`,
`FinishTask` and `Report` the goroutine of the task; `Consume` and `EndTurn` are Run. `mutex` is the
manager's, held by a task whose report waits for room in the inbound queue.

**Credentials.** One user and one integration. `refresh[p]` is where a goroutine is in doRefresh,
`current[p]` the copy of the credential it read; `valid`, `issued` and `lost` are what the provider
knows. `Sweep` is checkAll with maybeRefresh, `ApiStep` has the steps of connect and disconnect.

**Billing.** `stripe` and `events` are Stripe, external; `Deliver` is a webhook request up to what it
read, `Write` its write; `ChangePlan` has a disjunct for each branch. `mapStripeStatus` is the code's map:
unpaid becomes canceled, and a status it does not have ("incomplete") or a price PlanForPrice does not know
changes nothing. `Reported` is what Stripe's `updated` events say besides. `calm` is a history
variable: events came in order, no two requests overlapped, no call failed.

**Workers.** `stream` and `delivered` are JetStream, external. `Looping` is a consumer goroutine:
`Fetch`, the acknowledgement (which comes before the processing), the processor, the answer.
`RunBegin`, `RunLoops`, `RunEnd`, `StopWorker`, `CloseNATS` and `Restart` are the life of the pool.

**Accounts.** `Begin` to `Handle` are a request: it reads a row or a token, and later writes its copy
(`Update`, UPDATE of all columns), or deletes.

**McpManager.** `ConnectServer` and `StoreConnection` load the servers; `CallTool` is a call (lock,
check of the flag, count, unlock, call), `CloseSwap`, `CloseWait`, `CloseSessions` are Close.
`early` remembers the calls counted before the flag was set, `cutOff` those that lost their session.

**LastChannel.** `file` is `state.json`, `memory` the copies of the agent loop and of the heartbeat.
`executeHeartbeat` and `sendResponse` each look the chat up, the turn records its own.

**ManagedServices.** `info` is what each manager believes of the service, `docker` the container
that has the name (a `docker run` that failed may have left one). `using` is a caller in EnsureRunning or Stop, `CheckState` and `CheckResult` the
monitor's HealthCheck.

**AuthFile.** `caller` is a goroutine or command: its next step and the copy of the file it loaded.
`RefreshAccessToken` may rotate the refresh token; `LoadStore` and `SaveStore` are SetCredential and
DeleteCredential. `latest`, `reused`, `crowded`, `unsaved` are histories.

**MediaStore.** `handler` is a delivery on its way to a reference, `reader` the turn that resolves
it, `CollectExpired` and `RemoveFile` are the two phases of CleanExpired, `MediaRestart` a new process.

Each `MC*` module instantiates its model; the `.cfg` gives the constants. `MCChats`, `MCServices`, `MCBus`
and `MCAgent` hold several components that share no state: the initial state picks one (`part`) and
the others stand still, so TLC explores the sum of their state spaces and not the product. Fairness is
stated there for each part's own actions. Subagents and Credentials occur twice: in `MCServices`
for their safety, and for their liveness in `MCBus` and `MCAgent`, whose graphs are small enough.

## Runs

| Run | Instance | What it shows |
|---|---|---|
| `bus` | 2 queues of 2, 2 publishers, 2 consumers, 3 messages; subagents: 2 tasks, a queue of 1, Run and one other goroutine | refinement of BoundedChannel (FIFO, nothing dropped while open); Close returns and frees blocked calls (`CloseReleases`); `SpawnReturns` |
| `cron` | 1 job, 5 schedules of all kinds, clock to 3, 2 crashes | `AtMostOnce`, `NotEarly`, `RemovedStaysRemoved`, `DueJobsRun` |
| `channels` | 1 channel with both workers, an internal channel, 4 messages (one in two chunks), queues of 1, 1 retry | `DeliveredInOrder`, `NothingLostWhileRunning`, `UnregisterDrains`, `LockReleased`, `EnqueuedSettles` |
| `agent` | 2 agents, 2 chats, 2 turns, 2 iterations, 1 retry; credentials: 1 sweeper, 1 caller, 2 tokens, 2 retries | `RoundAnswered`, `OwnChat`, `TurnEnds`; `DueIsTried` |
| `session` | keep 2, threshold 3, batches of 2, 6 messages, 1 crash | `InOrder`, `PromptWellFormed`, `NothingForgotten`, `SummariserFreed` |
| `fallback` | 2 callers, 2 providers, one with two models, cooldowns 1,2 and 2,3, window 3 | `ImplementsGate`, `Recovers` |
| `chats` | indicators: 1 chat, 2 messages, 2 replies; WeCom: 2 texts, 2 polls, 3 replies; OneBot: 3 ids, ring of 2, 2 connections; operator: 2 clients of 2 sessions, limit 1, window 1; WhatsApp: 2 starts, 2 drops | `EditedOnce`; `UrlUsedOnce`, `MapsAgree`, `SendReturns`; `HandledOnce`, `Redials`; `EndedForgotten`, `SendEnds`; `StoreOutlivesUsers` |
| `services` | subagents: 2 tasks, a queue of 1, Run and one other goroutine; credentials: 1 sweeper, 1 caller, 2 tokens; billing: 2 handlers (webhooks or plan changes), 2 subscriptions, 5 events, 3 reports, 1 row; workers: 1 message, 2 workers, 2 deliveries, 1 crash; accounts: 2 accounts, 3 requests; MCP: 2 servers, 2 calls; heartbeat: 2 users, 2 boots; container: 1 agent, 1 command, 3 callers; auth: 2 providers, 1 caller, 3 grants; media: 2 deliveries of one file, 2 processes | `ReportsHome`; `NoReuse`; `NoWrongfulCancel`, `SyncedWhenCalm`; `TakenIsProcessed`; `CloseIsComplete`; `DeletedStaysGone`; `LastGrantStored`; all types |
| `channels_panic`, `agent_reply`, `session_compress`, `heartbeat_stale` | smallest instance that shows it | a statement of the repository that the code does not keep, see [findings](#findings) |

Further configurations belong to the same modules. They take longer, or show limits of the code:

| Configuration | Properties | Result |
|---|---|---|
| `MCServicesMore.cfg` | `VerifiedByToken`, `StartedOnce`, `EntryHasFile`, `FilesHaveOwners`, `ResultFollowsTurn`, `RefreshEnds`, `QueueServed` | hold (with `OwnFiles`, a file for each delivery; about 3 minutes) |
| `MCChatsMore.cfg` | `TypeOK`, `EntriesEvicted` | hold |
| `MCBusDrain.cfg` | `DrainedAfterClose` | violated: a Publish that read the flag before Close may send after the drain (`pkg/bus/interface.go:31`) |
| `MCChatsUnending.cfg` | `SendAlwaysEnds`, `TypingStops` | violated: a client's own reader holds its write up, and with it Send; a second message overwrites the first one's typing stop function |
| `MCChatsGaps.cfg` | `ReplyReachable`, `ReactionRemoved`, `LimitKept`, `StopDisconnects`, `OneReconnect`, `NoStrayCallback` | each violated |
| `MCServicesGaps.cfg` | `AtLeastOnce`, `DisconnectCleansUp`, `NoneCutOff`, `CooldownKept`, `AdminRemains`, `NotTakenAway`, `NeverReused`, `NamesAreUnique`, `LinkKept`, `OnlyOwnFields`, `CommandStops`, `OthersKept` | each violated |
| `MCServicesStop.cfg` | `StopStops` | violated |

TLC stops at the first violation; to see the counterexample of one property of these lists, keep
only that one in the configuration.

Why the bounds are enough to be interesting:

* bus: with capacity 2 and three messages a queue is full and a publisher blocks; with two of
  everything each select has competitors; two queues let Close be between them.
* cron: one job suffices because jobs do not influence each other except through whole-file
  writes, which the second writer exercises; the clock passes every schedule's time, the two
  crashes allow one before and one after a run. A run excludes clients that enable an already
  enabled, overdue one-time job (`service.go:438`); the proofs do not.
* channels: with queues of size 1 both the dispatcher and the bus fill up; one retry separates
  first attempt, retry and giving up; one removal and one shutdown overlap with everything.
* agent: two turns overlap in every way two goroutines can; the second agent shows that only
  turns of the same agent disturb each other. Two turns in a row show what a round leaves behind.
* session: the code's 4/20/10 are scaled to 2/3/2, keeping the order Keep < Threshold, so that
  a summary, a compression and a save fit into six messages and overlap. With two threads,
  keep 1, threshold 2 and four messages the same properties held as well (873,008 states);
  `session_compress` uses the code's own limits.
* fallback: two errors reach the longest cooldown, which as in the code equals the window; two
  callers let results come back out of order. `CodeCooldowns` in MCFallback checks the code's
  formulas (1, 5, 25, 60 minutes and 5, 10, 20, 24 hours) against the assumption the model makes.
* chats: two messages of a chat are what it takes to overwrite an entry, two texts to give a chat
  a queue, two polls to race at one task; three ids and a ring of two make an id leave the ring;
  two sessions and a limit of one make handshakes race for the last place; two lost connections
  make two reconnecting goroutines possible, and a second start meets what the first has left.
* services: a queue of one fills up with the first report; two tokens let one rotate; two
  subscriptions and five events let the old one end, late, after the new one began, and two handlers let
  their webhooks overlap; the reports are a change of plan, an unpaid subscription and one whose status
  and price the maps do not know; two
  deliveries separate the first from the last; three requests let one overlap two others that
  follow each other; two turns of one agent and a command use both kinds of manager; two
  providers show what a whole-file write does to the other entry, three grants a login, a refresh
  and a refresh with the token of the refresh.

Deadlock checking is off where the instance may simply be finished: all messages sent, all turns
taken. It is on in `fallback`, where time always passes.

## Findings

Each is a run whose counterexample is a behaviour of the code, against a line of the repository.

* `channels_panic`: StopAll closes the worker queues while a dispatcher may be in its select with
  a worker it looked up before; if the send case is chosen the process panics.
* `agent_reply`: Run drops the reply to a user because another turn of the default agent, or an
  earlier round, left `sentInRound` set; the comment in Run speaks of "this round".
* `session_compress`: forceCompression after tool iterations drops the user's request itself; its
  comment promises to keep the last user message.
* `heartbeat_stale`: the heartbeat's state manager reads `state.json` once, when the process begins,
  so a heartbeat is for the chat of the process before (or for none), not for "the last active
  user channel"; and its turn then records that old chat over the new one.

Observations made on the way, each visible in a model, not all in a property:

* *Channels.* A WeCom reply that is put between the last poll and the closing of its stream is
  fetched by nobody. A OneBot reaction that is undone quickly may stay; `connect` may finish after
  Stop and leave a connection open. The operator channel checks MaxConnections long before it
  counts, does not use `WriteTimeout`, and lets a message name the session it is answered in.
  WhatsApp: a Start after a failed one, or after a Stop that was cut short, finds goroutines of the
  run before; and a Start that fails closes the store under goroutines of its own (`NoStrayCallback`),
  which is why `StoreOutlivesUsers` speaks of the clients Start has not given up.
* *NATS and workers.* A message is acknowledged before it is processed, so a crash loses it although
  the bus is called "at-least-once". `ShutdownTimeout` is unused, Stop cancels the context the
  messages are processed with, and a Stop before Run has set its context is lost (`StopStops`).
* *Credentials.* A refresh in flight stores its copy after a disconnect. In `auth.json`, which
  has no lock, overlapping callers lose each other's entries and reuse rotated refresh tokens.
* *Billing.* Errors are answered with 200, so Stripe does not repeat the event. A late `updated`
  revives a canceled row, one before its checkout is lost, and an upgrade from the free plan
  creates a row without a link. An unpaid subscription, which Stripe can still revive, cancels its row; a status
  or a price that the maps do not know leaves the row as it was, though Stripe has changed. A handler of an event of the
  old subscription writes the old link over the new one if it read the row before the new checkout (`LinkKept`),
  and from then on nothing finds a row for the new subscription's events.
* *Accounts.* A request undoes another one's change with its whole-row write; two administrators can
  demote or delete each other; two resends within the cooldown both pass.
* *Services.* `operator services stop` and `status` ask a new manager, which knows of nothing; each
  manager's `docker rm -f` takes another one's container away; a degraded service is not looked
  at again by the health check.
* *MCP.* A call that checked the flag before Close may be counted after Close has waited.
* *Heartbeat and devices.* The gateway's heartbeat handler always answers silently, so `sendResponse`
  is reached by other handlers only; device notices go to the chat of a third copy of the state.
* *Media.* Feishu's file name (message ID and file key, "a unique name to avoid collisions") is the
  same for an event delivered twice, and the first clean-up removes the second one's file. Files
  of an earlier process are never removed, for the references are only in memory.

## Fairness

Fairness is assumed only of goroutines that have a ready step, and of calls that have a timeout or, for
channels, are assumed to return. It is weak unless said otherwise.

* bus: a goroutine in a select with a ready case, and Close once called. Nobody is assumed to
  publish, consume, cancel or close.
* cron: the clock and the loop goroutine. A handler need not return, for it may run a turn of the agent;
  `DueJobsRun` speaks of behaviours in which the loop is again and again out of its handlers, because it
  runs the jobs one after the other. Boot, saves and clients are not fair.
* channels: dispatchers, workers, StopAll and UnregisterChannel once called. Rate limiter and backoff
  timers elapse. That Send calls return is an assumption about the channels, most of which bound their
  requests; those modelled here have `SendReturns` and `SendEnds`.
* agent: a turn in progress continues as long as it is not blocked (`Block`). HTTP providers and most tools
  have timeouts, but a tool of an MCP server (`pkg/mcp/manager.go:471`) and a model behind a
  command-line program (`pkg/providers/claude_cli_provider.go:42`) only end with Run's context, which has no
  deadline, and so does what Run itself publishes while the bus is full. So nothing makes a blocked turn
  go on, and `TurnEnds` says: a goroutine is done with its turns again and again, or from some time on it is
  blocked for ever.
* session: the summariser continues; its context has a timeout of two minutes.
* fallback: time passes. A provider call need not return.
* indicators: handlers, the worker inside preSend, the passing of the TTL, and the janitor, which
  ranges over all entries at every tick. Replies are never assumed.
* WeCom: callbacks and the worker run, time passes, the cleanup's ticker fires. Nothing makes WeCom
  poll or the agent answer.
* OneBot: a listener whose connection has failed gets the error, requests have a timeout, the
  interval of the loop elapses. That a message read is handled in the end assumes that somebody empties the
  inbound bus, as for every channel: it has room for 64 messages. Nothing is assumed of the server.
* operator channel: goroutines run; a read deadline passes when no pong can come; *strong* fairness of
  Send's lock, for a Go mutex serves a waiter of more than a millisecond first. A client does
  what it likes.
* subagents: a waiting goroutine gets the mutex when it stays free, and PublishInbound has a timeout.
* credentials: the sweep's goroutines, time, the exchange and the store (the HTTP client has a timeout
  of 30 seconds); *strong* fairness of the lock, as above. Not Start: the loop may stay stopped.
* workers (in `MCServicesMore` and `MCServicesStop`): the loops, Run and AckWait; *strong* fairness of Fetch, as each
  fetch that finds nothing is followed by another one.
* billing, accounts, MCP, heartbeat, containers, auth, media, WhatsApp: none; their properties are
  safety properties.

## Proofs

All proofs are for every value of the constants under the named assumptions of the modules
(non-empty or natural-number bounds, `None` different from real values, functions of the right
type). They use the SMT and Zenon backends and LS4 for the last temporal step.

* **MessageBusProofs.** `TypeCorrect`; `OrderHolds`: what was accepted is what was removed
  followed by what is queued (inductive together with the type invariant), and what was
  received is what was removed as long as the bus is open; `Refinement`: every step is one of
  BoundedChannel or leaves its variables alone.
* **CronServiceProofs.** `TypeCorrect`, `AtMostOnceHolds`, `NotEarlyHolds`, `RemovedStaysRemovedHolds`.
  "At most once" is not inductive: a copy of the job may sit in memory, in the file, with the cron tool, with the
  command or with the loop. The invariant `IInv` says of every copy (`Copies`, `Known`) that it
  carries the schedule the job was born with and, if armed, that time; and (`OneTimeJobs`) that
  a job which has run, or is due to, cannot be armed again because its time is past. Crashes,
  lost saves and stale writers may bring any copy back, and none of them is dangerous. That a removed
  job comes back only when the file is loaded before the loop begins is an action property: it needs
  that a process which is not running has no loop (`Down`), and then each step is looked at.
* **AgentLoopProofs.** `TypeCorrect`, `RoundAnsweredHolds`, `OwnChatHolds`. The invariant adds that
  overlapping turns of one agent know of each other (`SharingKnown`) and that the tool of an agent
  whose turn is alone holds that turn's chat and flag (`ToolIsTurns`). Blocking changes none of it
  (`BlockKeepsIInv`).
* **SessionHistoryProofs.** `InOrderHolds`, for any number of overlapping turns and crashes: every
  copy of the history (memory, file, snapshots of saves, the summariser's and the compressor's
  copy) is strictly increasing in log positions and within the log. The work is in the lemmas on
  `Compressed` and `Kept`. `TypeCorrect` rests on it for the histories, and adds that every summary is of
  messages of the log (`SumsKnown`) and that a turn waiting for tools waits for one (`CallsLeft`).
  `NothingForgottenHolds`: as long as turns of the session have not overlapped, what the history and
  the summary together lack is excused. The invariant is `NothingLeftOut`: the session in memory lacks
  nothing that is not excused (`AllBy`); what is on disk or about to be saved lacks nothing
  older than its last message (`CopiesCovered`); what a compression is about to write back has all
  that the history has got (`Compression`); and what a truncation that is not late will take was summed
  up (`Summary`). The step of the truncation needs two lemmas: TruncateHistory takes only
  positions before the last `Keep` of the history (`KeptDrops`), and these are before the last
  `Keep` of the copy that was summed up (`EarlyInBoth`), as the history only grew meanwhile or was
  compressed.
  `PromptWellFormedHolds`: in what sanitizeHistoryForProvider leaves, each result follows its call and each
  call is followed by all its results. It has two halves. The first is about the handlers: the session
  in memory, in the file and in every copy can only be cut in one way (`Shape`, in `WellCut`). After its
  first message, which a compression keeps whatever it is, come the last results of a call that is
  lost, and then calls with their results. No call waits for results (`Closed`) but the last one of a
  turn that runs its tools, for as many as the turn has left (`OpenTail`). Truncations and
  compressions take a piece away after the first message or with it (`CutOf`), and that keeps the
  shape (`CutKeeps`); with two turns, or a turn that a restart cut in two, it would not hold. The
  second is about the function: `SanitizeIs` computes its fold from the front, and `GoodKept` is
  what is true of the messages kept from the first n: that a call is kept with all of its results
  so far or with none, that it is the nearest message before them which is no result, and that nothing
  is kept of a call that is lost.
* **ChannelManagerProofs.** `TypeCorrect`, `Ordered`, `NothingLost`, `Drained`, `QueuesImplemented`. A message is in one place
  at a time, and there once: on the bus, in a dispatcher's hand, or put into its lane (`BusOnce`,
  `HandOnce`, `LaneOnce`). What a queue holds is the tail of what was put into it, the worker sends
  the message before that tail and has settled all before it (`QueueIsTail`), and what is delivered
  was taken out (`DeliveredTaken`). With these, `InOrder` is inductive: it speaks of positions in the
  lane where `DeliveredInOrder` uses Rank, and `RankIs` shows the two agree. `NothingLost` needs that
  a worker ends only when its queue is closed and empty or its context is canceled (`Started`);
  `Drained` that a channel without an entry in the map has no worker under way (`WithoutWorker`).
  `QueuesImplemented`: the workers' queues implement the BoundedChannel of the bus, with
  defaultChannelQueueSize for its capacity and never shut: StopAll and UnregisterChannel close
  the queues, but what is in them goes to the worker or stays. Enqueue is Put, WorkerRecv is Get (the
  head of the queue is the next message of the lane, by `QueueIsTail`), all other steps stutter.
* **FallbackChainProofs.** `TypeCorrect`, `CountsAgreeHolds`, `ImplementsGateHolds`. The invariant
  `EntryOK`: a cooldown that still runs plus the age of the last failure is at most the cooldown
  the present count stands for. So the next failure, whose count is no smaller, extends it, and
  when the window has passed nothing is left that a reset could shorten. Assumed: cooldowns grow
  with the count and are no longer than the window (`BackoffAssumption`), which the code's satisfy.
* **ChatsProofs**, about `MCChats` and the five modules it puts side by side.
  `PlaceholderEditedOnce`: a placeholder is not edited before its handler has recorded it, nor while
  it is recorded. `UrlsUsedOnce`, `MapsInAgreement`: a task that was removed is in no map again, and
  only removed tasks had their URL used. `MessageHandledOnce`: the ring holds the last ids of the
  history, the one written d messages ago at `Slot(dedupIdx, d)`, for a ring of any size.
  `ConnectionsForgotten`: `Conns` is about the readers and the map, `Walks` about those who range over a
  snapshot of it. `StoreClosedLast`: the last client made has its store open, only a connecting
  goroutine holds a client, and while there is none to be stopped none holds an older one.
  `ChatsTypes`: the composed invariant `ChatsInv` gives the types of all five.
* **ServicesProofs**, likewise about `MCServices` and its ten modules.
  * *Workers* (`WorkersTypeCorrect`, `TakenIsProcessedHolds`). A message which is ready can be delivered
    once more (so no delivery exceeds MaxDeliver), loops go only while their worker runs (so Run cannot
    end and begin anew around them), and a loop past its fetch has a message, and past the
    processor one that was handled.
  * *MCP* (`McpTypeCorrect`, `CloseIsCompleteHolds`). What is open is in the map once Close has begun
    (`Connections`), and a call counted early is not begun again (`EarlyBegun`), so when the count
    is zero none of them is left (`EarlyCounted`).
  * *auth.json* (`AuthTypeCorrect`, `LastGrantStoredHolds`). As long as nobody overlapped and no save
    failed: one caller is under way at most, it knows the latest grant of its provider, and its copy
    has the latest grants of the others (`CallerUpToDate`); a latest grant's refresh token is not
    spent, and no two providers share one (`LatestUsable`), so a refresh spends no other's.
  * *Subagents* (`ReportsGoHome`). The tool's context is the turn's chat between SetContext and Execute
    as long as nobody came between (`SubTurns`), and a report is in the queue only between the end of
    its task and the turn that takes it (`SubTasks`).
  * *Credentials* (`TokensUsedOnce`). Whoever sends or stores holds the mutex (`CredMutex`); a token in the
    vault or about to be sent is good or known to be lost, except that the vault's may be spent
    while its successor waits to be stored (`CredTokens`). The type of `retries` needs a count of the
    sweepers on their way (`CredCount`): each of them may add one after the limit was read.
  * *Billing* (`NoWrongfulEnd`, `InStepWhenCalm`). Four layers: types; what the events say of Stripe
    (`BillEvents`: a deletion is the last event of its subscription, a late payment has its failure);
    that a canceled row has its reason among the events (`BillLegit`), also one that a handler has read and not
    yet written; and, while all is calm, that a linked row has the status of the last event seen whose status the
    map knows, and the plan of Stripe's price if it is known, or is ahead of Stripe's events (`LinkedOK`), that
    of several rows of a link only the newest is in use (`Twins`), and what a checkout delivered again may
    take (`Retaken`). A handler's write in progress counts as done (`Applied`). TLC checked `BillInv` before
    it was proved. `BillingAssumption` says that a cancellation is reported as `deleted`, not as `updated`.
  * *Accounts* (`AccountsHold`). A row that is verified, in the table or in a request's copy, was vouched
    for by a used token of its account (`Vouched`, `RequestOK`).
  * *Heartbeat* (`ResultsFollowTurns`), *containers* (`ServiceStartedOnce`: one turn at most starts a
    manager's container, just while its state says so), *media* (`MediaFilesKept`: a reference is
    there or its file is to be removed, never both).
  * `ServicesTypes` combines the ten invariants in `ServicesInv`.

Some lemmas need induction over a length: how the fold of sanitizeHistoryForProvider is computed and
what it keeps (`SanitizeIs`, `SanitizeGood`, by `UpTo`), how the WeCom bot's list without a task is
computed (`WithoutIs`), how far apart two messages of a history are in the log (`GrowsByOne`), and that the
newest of a subscription's rows is found (`BillFound`). They take the least counterexample, which
exists because < on the naturals is well-founded (`Least`, `BillLeast`); that the pause after a failed
refresh is a number, though it is a power of two, follows from the count of the subsets of a set
(`CredPower`).

## What is only model-checked, and what is not modelled

Liveness (`CloseReleases`, `DueJobsRun`, `LockReleased`, `EnqueuedSettles`, `TurnEnds`,
`SummariserFreed`, `Recovers`, `SendReturns`, `Redials`, `SendEnds`, `SpawnReturns`, `DueIsTried`,
and in the further configurations `EntriesEvicted`, `RefreshEnds`, `QueueServed`) rests on fairness
and ENABLED and is checked by TLC only. The counterexamples of the violated properties are TLC's, too.

All invariants and action properties of the passing runs, and their refinements, are theorems. The
type invariants of the modules with a run of their own are theorems and in no run, and so are
`CountsAgree` and `ImplementsQueues`, which TLC confirms when they are added to `MCFallback.cfg` and
`MCChannels.cfg`. `InOrder` and `NothingLostWhileOpen` of the bus are a theorem (`OrderHolds`), and
the run `bus` covers them by the refinement. Of the further configurations, `VerifiedByToken`,
`StartedOnce`, `EntryHasFile`, `FilesHaveOwners` and `ResultFollowsTurn` are theorems too.

Left out of the modelled parts: message texts and payloads, formatting, logging, metrics; the
lookup of channels in the configuration; media in the agent loop; oversized messages and
the prompt cache; `ExecuteImage`, which nothing calls; the patterns of ClassifyError. What else a
module leaves out its header says. Data races in the Go memory model are represented only as
interleavings of whole field groups (the message tool's context is set in one step).

Several modelled parts are constructed by no command at this commit: the NATS bus and the worker
pool, the OAuth refresh manager, the billing handlers. Their models are of the packages as
their tests and comments use them.

Not modelled, with the reasons in `PROJECT.json`. By far the most of the code is of these kinds:

* adapters: chat services other than the four above, model providers, tools. One call is one
  request; the models see its outcomes;
* HTTP handlers and queries around a database (agents, audit, GDPR, beta, usage, invoices, the
  registry of integrations), with no state of their own between two requests;
* conversions: configuration, migration, cards and markup of messages, schemas, prompts;
* pure functions that feed a model: SplitMessage (ChannelManager takes the number of chunks), routing
  (AgentLoop takes the agent);
* code nothing uses: the rate limiter (the gateway serves its status, but no request passes through
  it), the session stores other than the JSON one, and their eviction;
* observation: health, metrics, logging; and the front end, launchers, charts and images.

## Plan

1. *Composition.* AgentLoop with the bus and FallbackChain: a timeout is retried after 5 and 10
   seconds, but the chain has put the provider into a cooldown of a minute; which retries can
   succeed at all.
2. *Pure algorithms.* `SplitMessage` (`pkg/channels/split.go`) and the routing cascade
   (`pkg/routing`) as operators, checked against reference definitions over short inputs; LINE's
   reply tokens.
3. *Proofs.* A refinement of Workers to the "taken, then processed" queue it promises.
