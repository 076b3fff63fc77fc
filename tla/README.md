# A TLA+ model of sesshin

sesshin lets a person watch and answer Claude Code sessions from another
device. A CLI wraps each `claude` process and registers it with a hub; Claude's
hooks and its PermissionRequest calls reach the hub over HTTP; clients (web,
chat, small devices) connect to the hub over a WebSocket. This directory models
the hub, the CLI's links to it and the web client's connection, starting with
what must not go wrong: the permission requests that Claude waits on.

## The system

| Part | Code | State | Operations | What makes it correct |
|---|---|---|---|---|
| Approval manager | `hub/src/approval-manager.ts` | `pending`, its timers, indexes by tool_use_id and by fingerprint | open, decide, timer, three stale-cleanup lookups, cancel | every request ends once, indexes match the table |
| WebSocket server | `hub/src/ws/*.ts` | targets, subscriptions, the counter of actions clients, terminal subscriptions | identify, subscribe, unsubscribe, prompt-response, input, close | counter exact, each client sees what waits |
| Approval wiring | `hub/src/wire.ts`, `rest/permission.ts`, `rest/server.ts` | per-request handler slots and updates, history ring | PermissionRequest, hook ingest, stale cleanup, boundary detection | Claude gets one reply, the one a person gave |
| Session state machine | `hub/src/state-machine` | `state`, `substate` | a transition per event | state tells the truth about the session |
| Registry, checkpoint, reaper | `hub/src/registry`, `wire-liveness.ts`, `session-liveness.ts` | session records, dirty flag and timer | register, unregister, update, flush, load, reap | a restart restores what was there |
| Events | `event-bus.ts`, `observers/*`, `agents/claude/normalize-*.ts` | ring of 200 events, dedup table, tail cursors | emit, replay, deduplicate, tail the transcript | nothing is lost, doubled or reordered |
| Idle watcher, summarizer trigger | `pty-idle-watcher.ts`, `summarizer-trigger.ts` | byte buckets, cooling; buffers and debounce timers | evaluate, fire | late results do not overwrite newer state |
| Terminal | `pty-tap.ts`, `headless-term.ts`, `wire.ts:638-707` | ring of bytes with a sequence number, screen | append, subscribe, snapshot, drop | snapshot plus deltas give the screen |
| Input | `input-bridge.ts`, `input-arbiter.ts`, `cli/src/inject-listener.ts` | a sink per session | deliver, set, clear | input goes to the live CLI or is refused |
| CLI uplink and reports | `cli/src/pty-tap.ts`, `pause-monitor.ts` | bounded queue, one request, a reconnect timer; last reported value, reports under way | write, flush, drain, tear down, reopen; poll | output in order, nothing stuck; the flag catches up after a report sent alone |
| CLI life | `cli/src/claude.ts`, `heartbeat.ts`, `cleanup.ts` | pid, heartbeat timer, temporary settings | register, beat, shut down | a dead session is forgotten, a living one kept |
| Mode trackers | `hub/src/observers/pty-banner-tracker.ts`, `jsonl-mode-tracker.ts`, `hook-ingest.ts` | a terminal, `everSawAnchor` | a detection per chunk, a mode per hook and line | the mode shown follows Claude's |
| Tool handlers | `hub/src/agents/claude/tools` | none | render, decide by key | every key on a card decides what it says |
| Web client | `debug-web/src` | store of sessions, prompts, events | frames, reconnect | agrees with the hub |
| Others | permission rules, summarizer back ends, hook handler, statusline relay | none or private | pure functions, one-shot processes | |

How they interact: Claude to hub by HTTP (hooks, PermissionRequest, held open);
CLI to hub by HTTP (register, unregister, heartbeat, raw bytes, sink stream);
clients by WebSocket messages; inside the hub by synchronous callbacks and event
emitters (registry and bus listeners). The hub is one Node process: a callback
runs to its end before the next one starts. What is hard is therefore not data
races but *orders*: timers, answers, cleanups, cancellations, subscriptions and
closing sockets in orders nobody wrote down, one suspension (the `await` on the
decision), and counters and indexes that are only ever adjusted. Around it are
processes that come and go (the CLIs, the hub itself, which any CLI may start
again), and connections that break with something under way. PROJECT.json
lists these hazards at their lines.

## Modules

| Module | Models | Extends / instantiates |
|---|---|---|
| `ApprovalManager` | `approval-manager.ts`, one action per method and one for the timer | |
| `ApprovalManagerProofs` | theorems on it | `ApprovalManager`, TLAPS |
| `WsSubscriptions` | subscriptions and `actionsBySession` | |
| `WsSubscriptionsProofs` | theorems on it | `WsSubscriptions`, TLAPS |
| `SessionState` | states and `transitionFor`, no variables | |
| `PermissionGate` | abstract: what Claude is promised | |
| `ToolHandlers` | which answers a card's keys stand for, no variables | |
| `HubApprovals` | the flow end to end | instances of `ApprovalManager`, `WsSubscriptions`, `PermissionGate`, `ToolHandlers`; extends `SessionState` |
| `HubApprovalsProofs` | theorems on its requests and sessions, and on the tool handlers | `HubApprovals`, TLAPS |
| `HubClientsProofs` | theorems on its clients | `HubApprovalsProofs` |
| `TerminalStream` | one session's PTY bytes from the hub's tap to the screens of the clients | |
| `TerminalStreamProofs` | theorems on it | `TerminalStream`, TLAPS |
| `SessionLife` | which sessions exist: CLIs, registry, checkpoint, reaper | |
| `SessionLifeProofs` | theorems on it | `SessionLife`, TLAPS |
| `CliStreams` | the CLI's uplink, downlink and pause reports | |
| `ModeTrackers` | the permission mode and its four sources, as a fourth link | extends `CliStreams` |
| `CliStreamsProofs` | theorems on both | `ModeTrackers`, TLAPS |
| `EventFeed` | abstract: what a client that follows a session's events is promised | |
| `SessionActivity` | hooks, transcript, deduplicator, idle watcher, summaries, the clients' event feed | extends `SessionState`; instance of `EventFeed` |
| `SessionActivityProofs` | theorems on it | `SessionActivity`, TLAPS |
| `MCApprovalManager`, `MCWsSubscriptions`, `MCHubApprovals`, `MCHubSessions`, `MCTerminalStream`, `MCSessionLife`, `MCCliStreams`, `MCSessionActivity` | constants for TLC | the module they name (`MCHubSessions`: `HubApprovals`; `MCCliStreams`: `ModeTrackers`) |

**ApprovalManager.** A request id is a fresh UUID, so a request is opened at most
once. `call[r]` keeps what `open` was given; (tool, fingerprint) is one value.
`settled[r]` is the value the decision promise resolved to, and `newest` is
history, kept to say which request a tool_use_id should lead to. All paths that
end a request share `Settle`; `CleanToolUseIds` has the guard of
`cleanupIndexes`. `CancelForSessions` takes a set because one closing socket
cancels several sessions in one synchronous loop.

**WsSubscriptions.** `allSub` and `sub` are the two forms of `subscribedTo`,
`listening` the clients with a `session-added` listener, `count` the map
`actionsBySession`. Session ids are not reused (`gone`): the CLI draws a fresh
one. `Bumped` is `bumpActions` for several sessions; the sets of one message are
disjoint, so the order does not matter.

**HubApprovals.** Its steps call the actions of the two instances and add what
`wire.ts`, the REST route and the interceptor do around them, in one step each:
`Request` opens, sets the state, broadcasts and fills the slot; `ClientAnswer` is
`onPromptResponse`; `ToolDone` and `Stop` run the state machine and then the
stale cleanup in its order of lookups; `SessionStart` and `SessionEnd` are the
boundary handler followed by the state machine; `Close`, `SubscribeTo`,
`SubscribeAll` and `Unsubscribe` include the release of requests when the counter
falls to zero and the replay of requests to a new subscriber. `Resume` is the
rest of the request's handler after its `await`. Node runs it before the next
event of another socket, but messages of one WebSocket chunk may come first; the
model allows any delay, so nothing depends on that. `told[c]` is what the hub
has sent: prompts shown to a client and not withdrawn, for the sessions it is
subscribed to. `answer` and `openedIn` are history. The deduplicator may drop an
event or not; the transcript, the idle watcher and the summarizer appear through
what they do to `state`.

An answer arrives as a key of the card. `ToolOf` gives each request its tool, and
`ClientAnswer` takes what the tool's handler can decide for any key, also one that
is on no card (`ToolHandlers!PossibleDecisions`).

Abstracted: message texts, the rendering of a tool call, the content of updated
input or permissions (only their presence: `allowWith`), substate, permission modes, the history
ring, logging. Clients are assumed to echo the session id of the prompt they
answer. An HTTP client that hangs up changes nothing in the hub, which never
looks; `http[r]` is the response written, read or not.

**PermissionGate.** A call is refused at once or held; a held call may be
answered by a person; it gets one reply. `allow` only if a person allowed, an
accepted answer is what Claude gets with its updates, a subagent never gets 204.

**TerminalStream.** A sequence number is the count of bytes up to the end of a
chunk; only the order of these ends matters, so chunks are numbered one by one
and `view[c]` is the list of those on a client's screen. `headless` keeps apart
what the terminal was given (`seq`, its `lastSeq`) and what xterm has parsed
(`parsed`, what `serialize()` shows), since `write` only queues. `phase` is the
start-up order: REST listens first, terminals come with the WebSocket server.
`HubSubscribe` is the whole handler: end the old subscription, snapshot, subscribe.
The web client's part is the replay of subscriptions on `open`, the first and
last listener of a session, and the refs of `TerminalView`, which survive when
the same view is given another session (`Mount` chooses what they hold). A socket
delivers in order and loses what is under way when it closes. Terminal sizes and
the `terminal.ended` line are left out, and so are the bytes kept in the ring,
which no snapshot is made from. xterm is external and modelled by what the hub
relies on: it parses chunks in order, some time after `write`.

**ToolHandlers.** The table of handlers and, per handler, the keys `render` puts
on the card and the decision `decide` makes of a key. Texts and rules are left
out; `scoped` says whether the input has the directory or URL that a rule to be
remembered is made from.

**SessionLife.** Time is counted in intervals of 10 s, the heartbeat's and the
reaper's. An interval ends when the timers due in it have fired: `due` and
`sweepDue` hold what has not. `Tick` ages every record, in memory and on disk;
`Sleep` does so by more than the timeout at once, with all timers overdue when
the machine wakes. `stage` is the hub's life: between `starting` and `up` the
checkpoint is loaded and REST does not listen yet; in `closing` the checkpoint is
stopped and REST still answers. A record keeps apart what the checkpoint listens
to (`progress`: state and substate) and what it does not (`settings`: pin, gate,
quiet, Claude's session id). `cli`, `post` and `bye` are a CLI's process and its
registration and DELETE under way, which may arrive after it ended. `taken` are
pids the kernel has given to another process whose command line also names
sesshin or claude: all that `pidMatches` looks at. Three variables are history:
`saved` is what a written checkpoint should hold; `lapse` counts the intervals
spent without a hub or asleep, and one more for every start of the hub, since the
checkpoint's timer last wrote an answered heartbeat to disk; `resting` are the
sessions whose settings have not changed since a heartbeat.

**CliStreams.** `queue`, `buf`, `pipe`, `got` are the places of a chunk between the
terminal and the hub's tap: the CLI's bounded queue, the request's own buffer,
the kernel, the tap. `Flushed` is `flushQueue`, called several times in a row when
several waits for `drain` are outstanding (`waits`); it writes one chunk at least,
whatever the buffer holds. `listener` is the inject listener; `deaf` is a
listener whose response was cut off by a FIN, which it never hears of. `sink` is
the bridge's entry for the session. `HubStops` ends every connection, `HubStarts`
may or may not restore the session (`known`). `reports` counts the pause reports under
way by their value: each is a `fetch` nobody waits for, on whichever socket is free,
so any of them is the next to be handled. Reconnection delays are left out: a
timer may fire at any time. The links share only the hub and the CLI, so each run
uses sets of them that meet something in common (`Uses`); the bounds are per link.

**ModeTrackers.** `mode` is Claude's own, `seen` the hub's. `chunks` is the output
seen through one question, which footer it leaves on the screen; `Draw`, `Observe`
and `IngestHook` stand for what `CliStreams` shows of the way there, order
kept and loss at a hub's end possible. `everSaw` is the tracker's flag without which a
missing banner says nothing.

**SessionActivity.** `facts` is what Claude does, each with a time in seconds; each
makes a hook call, a transcript line, or both. `Emit` is the event bus: through
the deduplicator to the state machine, the summarizer's trigger and the clients
in one step. `hooks` may be lost (250 ms), their time stamps are later than the
transcript's by up to `Skew`, which is less than the window (250 ms against 2 s).
A fact comes any of `Gaps` seconds after the last; when that is `FarGap` or more
after some fact, no report of that fact is under way any more (`UnderWay`, a bound
on asynchrony: the tail polls every 200 ms). `Evaluate` is the idle
watcher's `evaluate` with the byte rate as `high`, `mid` or `low`; `Busy` and
`Quiet` say when Claude's terminal shows which. `NeedsDecision` is what each
summarizer of the fallback chain may say, `Summarised` its late effect on the
state. `Ring` and `Since` are the events a returning client is sent. After a
restart the tail reads from the beginning again.

**EventFeed.** Events are numbered; the hub keeps the newest, forgets all when it
ends, and owes a client that returns what it keeps and the client has not seen. A
client takes what it is owed in order, so it never gets an event twice and
misses only what was no longer kept. `SessionActivity` implements it with `kept`
as the ring, `owed` as the frames under way and `seen` as the client's `lastEventId`.

## Runs

| Run | Bounds | Checks |
|---|---|---|
| `approval_manager` | 3 requests, 2 sessions, 2 fingerprints, 1 tool_use_id; symmetric | type, `PendingXorSettled`, `FingerprintIndexExact`, `ToolUseIdIndexExact`, `SettledOnce` |
| `ws_subscriptions` | 2 actions clients, 1 viewer, 2 sessions; symmetric | type, `CountExact`, `ReleaseSignalExact` |
| `hub_one_session` | 1 session, main-thread and subagent request, 2 clients, 2 conversations, every event | type, `SlotsFollowTable`, `HeldIsWaiting`, `LiveCards`, `PendingBelongs`, `AwaitingHasRequest` |
| `hub_two_sessions` | 2 sessions with a request each, 1 client | `LastClientReleases`, `ImplementsManager`, `ImplementsGate`, `EveryCallAnswered` |
| `terminal_stream` | 1 browser, 2 chunks per life of the hub, 1 restart, 3 frames each way | type, `ViewInOrder`, `NoHoleAfterSnapshot`, `TerminalPerSession`, `ChunksArrive` |
| `session_life` | 2 sessions, one that changes and may end, one that stays; timeout of 2 intervals, 2 runs of the hub, 1 sleep | type, `LivingSessionKept`, `CheckpointCurrent`, `SettingsSavedByHeartbeat`, `DeadSessionForgotten` |
| `cli_streams` | links: output; input with pause reports; mode. 5 chunks, queue of 3, buffer of 2, 2 inputs, 4 suspensions, 2 timeouts, 2 modes, 2 changes of mode, 2 messages under way, 3 runs of the hub | type, `OutputInOrder`, `OutputDrains`, `InputTyped`, `PausedCatchesUp`, `ModeFollows` |
| `session_activity` | 2 facts 0, 2 or 3 s apart, window 2 s, skew 1 s, ring of 1, 2 ticks to be sure, 1 restart | type, `ReportedOnce`, `FeedComplete`, `ImplementsFeed`, `InterruptSeen`, `AnswersSummarised` |
| `gate_without_client`, `done_runs_again`, `counter_after_removal`, `terminal_snapshot_seq` | as the runs above; `done_runs_again` with requests of announced conversations only | one documented statement each, which the code does not keep |

Why these bounds: a stale index needs two requests with one key and a third with
another; a lookup that confuses sessions needs two; a counter that drifts needs
one client that leaves and one that stays; a boundary needs an old and a new
conversation. Browsers meet only in the hub, which treats each connection alone,
so one is enough for the stream; two chunks and three frames let a stale delta,
a snapshot and a new delta be under way together. In `session_life` a timeout of 2
is the smallest that tells "late" from "too late", and one session beside another
shows that the reaper takes only the dead one; the second run of the hub starts
from what the first left on disk. In `cli_streams` five chunks overflow a queue
of three while two are in the buffer, three runs of the hub let a listener
reconnect twice, and four suspensions let two pause reports overtake each other and
a later one be alone. In `session_activity` two facts are
enough for one to be taken for the other, a ring of one drops the older, each
fact has up to two reports in either order, and the gaps are one inside the window,
one on its edge and one that is far. Ids carry no order, hence the
symmetry sets; the liveness runs use none. Deadlock is not checked: with all
requests settled and all sessions gone a quiet hub is a normal end, and so is a
machine on which nothing is started any more.

Fairness: armed timers fire and settled promises resume (`WF` on `Expire` and
`Resume`), which is what the event loop does. Nobody else is obliged to act:
clients may stay away, Claude and the CLI may fall silent. `EveryCallAnswered`
holds from the timer alone. For `ChunksArrive`: frames that a socket carries are
handled at both ends, and a hub that began to start goes on. Nobody has to
connect, send bytes or parse them. `session_life`: heartbeats, the reaper, the
checkpoint's timer and time itself go on, a hub that began to start listens, one
that is closing ends; no CLI has to leave, no hub has to be started. `cli_streams`:
sockets carry, timers fire, the monitor polls; nobody has to write, type, suspend,
draw or toggle. `ModeFollows` says in its own premises that Claude keeps
drawing. `session_activity`: the watcher evaluates, the trigger's timer fires, a
call for a summary is answered, since the last resort cannot fail. The timer is
put off by every answer, so `AnswersSummarised` relies on Claude pausing for
400 ms sooner or later, which the bounded number of facts gives it.

What the violations show:

- *A request is held with nobody there.* README.md:178 and
  docs/architecture.md:297 promise an immediate 204 when no actions client is
  subscribed; `onPermissionRequestApproval` never asks. Claude waits for the
  timer (60 s).
- *A finished session runs again.* docs/state-machine.md:17 calls `done`
  terminal; the handler of a request cancelled by SessionEnd sets `running`
  when it resumes (`wire.ts:185`). The search is confined to requests made in an
  announced conversation (`AskedInConversation`), since SessionEnd cancels nothing
  otherwise; the trace is registration, SessionStart, request, SessionEnd, resume.
- *The counter of a removed session.* `ws/server.ts:58` equates a positive
  counter with a connected subscriber; a client subscribed to 'all' that closes
  after the session was removed leaves it positive. `CountExact` is therefore
  stated for sessions that were not removed.
- *A snapshot from the future.* `headless-term.ts:18` says that a snapshot's `seq`
  is that of the last chunk applied to it. `write` advances it before xterm has
  parsed the chunk; a client that subscribes in between gets a screen without the
  chunk, and no delta for it. `NoHoleAfterSnapshot` is therefore stated from the
  snapshot's number on.

A property that holds where a document says the opposite:

- *SessionEnd cancels the pending requests.* docs/state-machine.md:194 says that it
  does not; `wire.ts:428` does when a conversation was announced. `PendingBelongs`
  holds in `hub_one_session` and is proved; its mutant `SessionEndAsDocumented` does what
  the document says, and TLC finds a request that outlives its conversation.

Also seen, not run:

- Two pause reports under way at once, on different sockets, may be handled in the
  wrong order (`claude.ts:249`, the awaited body in `rest/server.ts:207`). The flag is
  then wrong, under one living hub, until the next change of the shell is reported;
  nothing resends the last one. `PausedCatchesUp` therefore begins with a report that is
  the only one under way.
- Free text sent with "yes" never reaches Claude (`wire.ts:195-203`,
  `rest/permission.ts:109-119` pass on updates, not `additionalContext`).
- The reaper and the checkpoint. A sleep longer than the heartbeat timeout can
  remove a living session, and the CLI never registers again; the same for a
  registration less than 100 ms before a crash. Heartbeats and registrations
  answered after `checkpoint.stop` are not saved, nor are pins, gates and quiet
  times set since the last heartbeat when the hub stops. Where `/proc` is missing
  `pidMatches` is always false. These are why `LivingSessionKept` speaks of sessions
  whose `lapse` stays below the timeout and `SettingsSavedByHeartbeat` of settings
  that are at rest.
- A second hub that starts while one runs loads the checkpoint and starts writing
  it before its `listen` fails.
- The uplink. `flushQueue` writes a chunk at least, also while it waits for
  `drain`, against the comment at `pty-tap.ts:112`; what was given to a broken
  socket is lost. After a 404 it goes on writing into nothing. Node ends
  the endless POST with 408 after its request timeout.
- The downlink. A response that ends with a FIN in the middle gives neither
  `end` nor, for the request, `error`: the listener stays attached to nothing
  until the CLI is restarted (`deaf`). `/inject` does not ask the input
  arbiter; a client is not told that `deliver` failed.
- Events. Two events of one kind within 2 s are one. After a hub restart the tail
  begins at 0, since nothing calls `setFileCursor`. A reconnect before any event
  was seen asks for none. `since` with one id for several sessions sends the whole
  ring of the others. An Esc during a tool leaves `currentTool`.
- State. Text in the middle of a turn sets `idle`; a late summary sets
  `awaiting-input` in the next turn; `running` restored with Claude at its prompt
  stays, as `hasBeenActive` is lost (hence the premise of `InterruptSeen`).
- Mode. A late hook overwrites a newer banner until the next chunk; a dialog over
  the footer reads as the default mode.

## Proofs

The proofs hold for every value of the constants, under the named assumptions on
them and no others: `None` is not one of the values it stands beside, the set of
clients is finite, sizes and bounds are naturals, `ask` and the like are
outcomes, a request asks for things of the right kind. TLC evaluates every one of
these assumptions. The bounds that keep TLC's instances finite (runs of the hub,
chunks, frames) appear as arbitrary naturals.

**ApprovalManagerProofs.** `IInv` is the type invariant, `PendingXorSettled`, the
exactness of both indexes, and `NewestOpened`. The last is the strengthening:
without it a request that is opened could already be the newest of some key, and
`ToolUseIdIndexExact` would not be inductive. `StepKinds` reduces the operations to
two, opening and settling a set of pending requests, so that each table is argued
about twice. `SettledOnce` follows: a settled request is not pending, and only
pending ones are settled.

**WsSubscriptionsProofs.** `SubscriptionInv` adds `Bookkeeping` to the exact
counter: a closed socket has no subscription, `'all'` replaces the explicit set,
the listeners are the actions clients on `'all'`. Every message is an instance of
one argument (`Moved`): one client exchanges a set of sessions for another, and
bumping by the two differences changes the counter as the watchers change.
Registration is the case of its own, where all listeners become watchers at once.

**HubApprovalsProofs.** `RequestInv` joins `PendingXorSettled`, `SlotsFollowTable` and
`HeldIsWaiting` with two facts that make them inductive and carry the answer from
the WebSocket to the HTTP response: `AnswerDecided` (an accepted answer used up
the slot and is the outcome) and `ReadyDecided` (until the handler resumes, only an
answer gives `allow`, and the updates are that answer's). The second is why a late
answer with updates to a request that something else settled is harmless.
`RequestSteps` shows that the handlers touch requests through eight operations
only; from it follow the refinements of `PermissionGate` and of the table's
specification. `SessionInv` adds what ties requests to sessions; there all steps
but two are `QuietStep`s. That a key a client sends becomes an outcome of the right
kind is `DecisionsAreAnswers`, from the table of handlers. `render` and `decide` of
a handler are separate code that must agree: `OfferedKeysAreDecided` says that no key
on a card sends the person back to Claude's own dialog and that only the refusing
keys refuse.

**HubClientsProofs.** `ClientInv` adds `SubscriptionInv`, the types of the cards,
`ClosedHasNoCard` and `LiveCards` to `SessionInv`. A step either ends requests and
tells their receivers, or replays requests to one client, or opens one, and the
cards are argued about once for each. The exact counter is what links the two
halves: the step on which it falls to zero cancels the session's requests, so
`LastClientReleases` is a theorem as well, and what one subscription message
replays to its client is never what it releases. tlapm cannot use a fact proved
of a module for an instance of it, so the argument about the counter is repeated
here for the hub's instance. `SubscriptionsImplemented`: every step of the hub is an
operation of `WsSubscriptions` or leaves its tables alone, as `ManagerImplemented`
says of the approval table.

**SessionLifeProofs.** `CheckpointInv` (types, `CheckpointCurrent`,
`SettingsSavedByHeartbeat`, and that a hub that starts holds what is on disk) is
inductive. `LivingSessionKept` needs an account of heartbeats, `Claimed`: as long as
the lapse is below the timeout, a running session that was once saved is on disk
with an age of at most the lapse and one interval, and in the hub likewise, and
at most the lapse once it has answered this interval's heartbeat or the hub has
only begun to start. So neither the reaper nor the test at restore can take it.
A heartbeat that the checkpoint's timer has not yet written is lost with the hub,
which is why `lapse` ends with the write and counts a start as an interval.

**CliStreamsProofs.** A chunk is in one of four places, each of which is rising and
below the one it feeds (`UplinkInv`), whatever the queue drops and wherever a
request breaks; hence `OutputInOrder`. Three liveness properties have a safety half
that is proved, beside the mode trackers too (`LinksImplemented`):

- `FlushIsComing`, of `OutputDrains`: what waits in the queue has a timer, a request
  that connects, or a drain event to come. `WakeInv` is the strengthening: a running
  CLI has a timer or a request and never both, and who waits for drain has given
  the request a chunk. The last rests on `FlushedWaits`, that `flushQueue` stops with
  chunks left only after a write that answered false.
- `InputUnderWay`, of `InputTyped`: while the listener is attached the hub has its sink,
  and what it owes is on that connection, in order.
- `LastReportCounts`, of `PausedCatchesUp`: the report under way, or the flag when
  none is, is what the monitor reported last. It holds from a report that is sent
  alone, as long as they go one at a time to the same hub (`OneAtATime`); both are
  premises of `LoneReportCounts`, since reports may overtake each other.

**TerminalStreamProofs.** `TerminalStreamInv` has three parts, proved one after the
other. The hub: a terminal was given exactly the ring's chunks since it began,
and while only REST listens there is none. The link: a delta under way is at most
one chunk after the frame before it, or after the screen, and a subscriber has
everything the ring has on its screen or under way. The screen: what is shown
rises, and has every chunk from the snapshot's number to the last accepted one.
`NoHoleAfterSnapshot` thus rests on snapshot and subscription being one step of
the hub and on the socket's order, and holds across reconnects, remounts, and a
numbering that starts again with the hub. `QuietScreenIsCurrent` joins link and screen
to the safety half of `ChunksArrive`: a subscribed screen to which nothing is
under way has every chunk since its snapshot.

**SessionActivityProofs.** `ReportInv` carries `ReportedOnce`. The deduplicator keeps only
the stamp of the last event of each kind, and two clocks give stamps. The stamp is at
least the time of every event passed in this run (`LastCovers`), so a second
report of a fact comes at most `Skew` later, less than the window, and is dropped:
`OncePerFact`. The stamp is at most `Skew` after the time of one of them
(`LastIsReport`), so what is dropped has a fact of its kind closer than `FarGap`, or
its own: `ReadIsReported`. That needs facts to be in order of time and those not yet
read to be recent (`TimesRise`, `TailIsPrompt`). The proof failed on an earlier model,
which bounded each gap alone: small gaps could add up to more than `FarGap` with a
report of the first fact still under way, and TLC showed `ReportedOnce` violated
with four facts. The guard is now on the age of what is under way.

`FeedInv` says the same of a client before it has an event as `FeedComplete` says
after, for the oldest frame under way in place of the newest event it has; with it,
`FeedImplemented` maps each step to one of `EventFeed` or to a stutter. What
`Ascending` sends is the interval of the ring that `RingIsTail` and `SinceIsNewer`
describe. `TimerIsSet` is the safety half of `AnswersSummarised`: an answer or an error
in the trigger's buffer has the timer set.

TLC checked the inductive invariants of the last three modules, and the safety
halves, on the instances of the runs as well.

Only model-checked: liveness, since fairness and ENABLED are
out of the prover's reach: `EveryCallAnswered`, `ChunksArrive`,
`DeadSessionForgotten`, `OutputDrains`, `InputTyped`, `PausedCatchesUp`,
`ModeFollows`, `InterruptSeen`, `AnswersSummarised`.

## Plan

Done, in this order: the approval table and the subscriptions; the flow that joins
them (`HubApprovals`) with its abstract gate; the terminal's stream; sessions,
checkpoint and reaper (`SessionLife`); the CLI's links and the mode
(`CliStreams`, `ModeTrackers`); events, idle watcher and summaries
(`SessionActivity`); the tool handlers; the proofs of all safety properties and
refinements that the runs check, and of the safety half of most liveness properties.

What is left, most useful first:

1. A transcript whose path changes (`/clear`): the boundary of `HubApprovals` and the
   tail of `SessionActivity` together.
2. The parts of `substate` other than `paused` (current tool, compaction, working
   directory), which only clients read.
3. The rest of the web client's store, as a refinement of the hub's view.
4. The tap's ring of bytes as a pure operator.

## Not modelled

Text and operating-system I/O without shared state: the rendering of cards and
pages, the patterns that find a mode's banner on a screen (their result is
modelled), the calls of the summarizer's models, the settings file in `/tmp`, the
spawning of processes, the statusline relay, and `prototypes/`, which no package
imports. The hook handler is modelled as the delay and loss it puts on a hook.
`permission-rules.ts` is used by its own test only. PROJECT.json gives the reason
part by part.
