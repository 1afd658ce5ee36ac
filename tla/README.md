# stoat++: a verification project

stoat++ (`src/`, `include/stoatpp/`) is a C++17 library for bots on stoat.chat. A bot owns
one `cluster`; the cluster owns a `gateway` (a WebSocket to the server), an
`event_dispatcher` (lists of handlers) and a `rest_client`. There are no tests in the
repository, and most of what can go wrong in it is concurrent. This directory holds TLA+
modules of the library's parts, TLC configurations that check them, and TLAPS proofs of
what the most important ones promise.

## Inventory

| Part | State | Operations | What makes it correct |
|---|---|---|---|
| gateway, event path (`gateway.cpp` 24-110, 227-234) | `event_queue`, `queue_cv`, `worker_running`, detached threads | `on_message_received`, worker loop, `~gateway` | nothing lost or handled twice; session control events in order; no lost wakeup; destruction ends |
| gateway, routing (`gateway.cpp` 357-733), event_dispatcher (`event_handler.cpp`) | handler lists, ignored users | `handle_event`, `on_*`, `dispatch_*` | every event of a payload reaches the handlers of its type, in order, whatever registers meanwhile |
| gateway, session (`gateway.cpp` 112-355, 373-384) | `authenticated`, `ping_thread(_running)`, watchdog, socket | `connect`, `on_connected`, `on_disconnected`, `schedule_ping`, watchdog, `disconnect` | heartbeat while connected; recovery of dead or silent connections; stop is final; no deadlock, no `std::terminate` |
| await_message (`messaging.cpp` 228-252, `commands.cpp` 195-213) | `message_watchers_` | `await_message`, its timeout thread, the message listener | every request answered once, by a message it asked for or a timeout, in order of requests |
| command dispatch (`commands.cpp` 215-244, 314-515, `misc.cpp` 33-52, 127-142) | cooldowns, registered commands | lookup, cooldown, `fetch_member`, permissions | one accepted use per cooldown; no run without permission; one outcome |
| help sessions, paginator (`commands.cpp` 39-193, `paginator.h`) | sessions by message, page | send, react | turns are exact; pages exist; reactions are taken back |
| entity cache (`cache.cpp`, `misc.cpp` 79-124) | servers, channels, users, members | listeners, `fetch_user`, `dispatch_command` | the cache follows the server's events |
| timers, lifecycle (`misc.cpp` 144-194, `cluster.cpp`) | `timers_`, `running_`, `timer_thread_` | `start`, `stop`, `start_timer`, `stop_timer`, loop | stop is not lost; a timer is not early; a stopped one runs at most once more |
| REST client (`rest.cpp`, `ratelimiter.cpp`) | buckets | `perform_request` and its wrappers, `check`, `update`, `upload_file`, `upload_from_url` | limits waited out, retries bounded, nothing repeated unknowingly, reports true |
| asynchronous calls (`messaging.cpp`, `moderation.cpp`, `misc.cpp`) | a detached thread each | send, edit, ban, ... | every caller hears, the truth, once |
| roles and categories (`moderation.cpp` 138-257, `rest.cpp` 508-594) | server side | add and remove role, move channel | no role is lost, no channel doubled, but by overtaking |
| voice (`voice_connection.cpp`, `pulse_voice.cpp`) | `joined`, `failed`, PCM queue, `send_thread`; streams | `connect`, callbacks, `send_loop`, `disconnect`; PulseAudio clients; wire format | no deadlock, no use after free; streams have one owner; what is written is read |

How they interact. The WebSocket's thread calls the gateway's callback, one at a time.
Messages go through `event_queue` to `worker_thread`, which handles Ping, Pong,
Authenticated and Ready itself and starts a detached thread for every other payload; that
thread calls the dispatcher, which calls the handlers of the cluster (cache, watchers,
commands) and of the bot. Handlers call REST on further detached threads. `cluster::stop`
calls `gateway::disconnect` from whatever thread calls it. Behaviour that is hard to get
right: these threads meet on flags and lists; the server closes, stays silent, or answers
late; timeouts race answers; read-change-write calls overlap; destructors join threads that
may be blocked. `PROJECT.json` lists each such place under "hazards".

## Modules

| Module | Models | Proofs |
|---|---|---|
| `OneShotReply` | abstract: a request is answered exactly once | |
| `MessageWatchers` | `await_message` and the listener | `MessageWatchersProofs` |
| `EventStream` | abstract: an ordered stream with serial control events and concurrent others | |
| `EventPipeline` | queue, worker, handler threads, `~gateway` | `EventPipelineProofs` |
| `EventRouting` | `handle_event` and the dispatcher, on the threads of several payloads | `EventPipelineProofs` |
| `GatewaySession` | connection, authentication, heartbeat, watchdog, `disconnect` | `GatewaySessionProofs` |
| `CooldownGate` | abstract: a request is granted exactly if its key's grants are a period ago | |
| `CommandDispatch` | `dispatch_command`, `fetch_member`, `has_permission`, edited messages | `CommandDispatchProofs` |
| `HelpSessions`, `Paginator` | the default help command; `utils::paginator` | `TimersProofs` |
| `ServerCache`, `UserCache` | the caches of servers, channels, members; of users | `RoleUpdatesProofs` |
| `Timers` | `start_timer`, `stop_timer`, `run_timer_loop` | `TimersProofs` |
| `ClusterLifecycle` | `start`, `stop`, the destructor and the timer thread | `TimersProofs` |
| `ReportedCall` | abstract: a call with one outcome, whose effects its tries bound | |
| `RestClient` | `perform_request`, its limiter, and every wrapper by its method | `RestClientProofs` |
| `ImageUpload` | `upload_from_url` and `upload_file` | `RestClientProofs` |
| `AsyncCalls` | the detached thread of every asynchronous call | `RestClientProofs` |
| `RoleUpdates` | `add_role_to_member`, `remove_role_from_member` | `RoleUpdatesProofs` |
| `ReactionRoles` | `examples/reaction_roles_bot`, composed with `RoleUpdates` | `RoleUpdatesProofs` |
| `CategoryMoves` | `move_channel_to_category` | `RoleUpdatesProofs` |
| `VoiceConnection` | a voice connection and its send loop | `PulseVoiceProofs` |
| `SignalCodec` | `pb_writer`, `pb_reader` | `PulseVoiceProofs` |
| `PulseVoice` | `pulse_voice_client` and its moves | `PulseVoiceProofs` |

The `MC` modules instantiate them for TLC, and compose those that one run checks side by side;
the proof modules extend them, so that a theorem names the property its run checks. A
definition marked "Faulty" is what a plausible mistake would do instead of the definition that
follows it, or of the one it is named after. No specification uses these; they show that each
property can fail.

### MessageWatchers

`registry` and `order` are the vector `message_watchers_` (which watchers it holds, and the
place at which each was pushed: `erase` keeps the order). Every watcher has the detached
thread that times it out (`timer`), every Message event the detached thread that handles it
(`pc`). A block under `message_watchers_mutex_` is one action (`AwaitMessage`,
`TimeoutExpires`, `FindWatcher`); starting the thread and calling the callback are actions
of their own, since they happen outside the lock (`SpawnTimer`, `CallTimeout`,
`CallWatcher`). `calls[w]` records what a callback was invoked with. `request[w].callback`
is false for an empty `std::function`: the listener then removes the watcher and still runs
the command. `request` and `content` are chosen once, at the start, for every call and
message that may come.

### EventPipeline

`queue`, `workerRunning` and `current` are `event_queue`, `worker_running` and `raw`. The
wait of the worker is split where it matters: `WorkerWait` evaluates the predicate under
`queue_mutex`, `WorkerPark` blocks and releases it. In between ("parking") no other thread
can push, but `~gateway` can clear `worker_running` and notify, because it does neither
under the mutex. Control events are handled by the worker; others by a detached thread
(`active`). `WorkerDiscard` is the loop's catch: parsing failed, or `std::thread` could not
start a thread (`ThreadLimit`; the code sets no limit, the operating system does).
`DtorDisconnect` either stops the socket's thread or leaves it, as `disconnect` does when
the socket is not open. What pushes after the destruction do is undefined in the code; the
model ends there.

### EventRouting

It goes on where `EventPipeline` ends: a payload is on its thread, the worker's or a detached
one. `todo[p]` is the events it has yet to handle; a Bulk puts its own at the front
(`OpenBulk`), which is the recursion of `handle_event`. For each event the raw handlers are
called, then the type decides (`OpenBulk`, `ActItself`, `DropUnknown`, `Reject`, `Ignore`,
`Dispatch`). `calling[p]` is what is left of the copy of a list that a `dispatch_*` made
under `mutex_`; `Register` may add a handler at any moment, and `ChangeIgnored` changes
what `should_ignore_user` says. An exception ends the thread, and the rest of the payload with
it. `Inside` gives the events of a Bulk; it is assumed that no event is inside itself,
however deep (`EventAssumption`), as no JSON value is. `Flat` is the order of all the events
of a payload. Every type is in one of the named sets (`MessageTypes` ... `UncheckedTypes`);
`TestedTypes` are those whose dispatch asks `should_ignore_user`. `ThrowingTypes` are those of
which a malformed event throws while it is read: a field taken as a string without a test, or
a role, alone or in a server of ServerCreate or Ready, that is no object (`models/server.h` 75).

### GatewaySession

Five threads. The WebSocket's thread runs one callback at a time (`wpc`,
`routine["socket"]`), as ixwebsocket does; it reconnects by itself (`SocketOpen`) until
`ws.stop()` (`stopReq`, `SocketStop`). `schedule_ping` and the teardown of `ping_thread` are
read-then-write sequences without a lock, so each of their lines is an action; `routine[t]`
is the line thread t is at. `pinger` is `ping_thread`: "none" when not joinable, "first"
and "loop" while it runs, "exited" when it has ended and was not joined. Assigning over a
joinable `std::thread`, and a `join` that throws with nobody to catch it, set `terminated`,
and nothing happens after that. `fresh` and `stale` count queued Authenticated events of
this and of earlier connections. Two history variables name what the guarantees depend on:
`late` (an event of an earlier connection set the flag) and `overlapped` (two threads were in
these routines at once). Time is one bit, `overdue`: whether `last_connected_time` is longer
ago than the watchdog's limits (20 s, 15 s).

Not reached from these threads, and left out: the branches that detach a thread which would
join itself; exceptions of `ws.start()`.

### CommandDispatch

A thread t is the dispatch of one message, or of one edit, together with the thread that
`fetch_member` starts for it; the first ends when it has started the second. `pc[t]` is where
it is; `content[t]` is what the message says, chosen when it arrives. A content is an
author, a first word (`NoPrefix` if no prefix matches) and whether its server is known
after the lookups of the channel. `FindCommand` is the two passes over
`registered_commands_`, names before aliases; `Fold` is `tolower` when
`case_insensitive_commands` is set. `last` is `command_cooldowns_`; the block under
`cooldowns_mutex_` is one action, `PassCooldown` or `RefuseCooldown`, keyed by the command's
name whatever alias was typed. Time is counted in ticks, `TicksPerSecond` to a second, and
`Elapsed` truncates like `duration_cast`. `FetchMember` takes the roles of that moment;
`CheckPermission` reads `server_cache_` later, after the bot's `command_run_handler_`
decided (`Deny`, `Bypass`, `Allow...`). `Throw` is an exception of the bot's handlers or of
the callback. On the thread of `fetch_member` everything is caught and the callback is
called once more with failure (`caught`), which reports "member_fetch_failed" although the
command may have run; a second exception ends the process. On the dispatching thread the
caller's catch takes a `std::exception` only. `roles`, `server` and `clock` change at any
time. `held` and `known` are histories: the author's roles and the cached servers at some
moment since the message. Of masks only membership matters: `required`, `default` and `grants`
are sets of permissions.

What the code does and the properties do not forbid: a refused or failed dispatch has used
its cooldown, which is recorded before the fetch; two runs can be closer than the
cooldown, since the fetch of the first may take longer than that of the second.

`registered_commands_` does not change, as in a bot that registers its commands before it
starts.

### HelpSessions and Paginator

In `HelpSessions` a menu is a call of help, a press a reaction; `Turn` is the block under
`help_sessions_mutex_`, `List` the listing of commands without it, `Edit` and `Unreact` what
the detached calls do. `turns` is a history: how often a menu was turned either way. Commands
may be registered at any time, so the pages counted when the menu was made and the commands
listed later can differ. `Paginator` has no lock. The answer of a send is a thread that tests
`alive` (`Arrive`), keeps the message and sleeps between the arrows (`KeepMessage`), then adds
a listener that stays (`Listen`); a listener tests `alive` (`Call`), the message (`Ours`) and
the page (`TestPage`), changes it (`ChangePage`) and reads it again (`ReadPage`); the callback
of its edit tests `alive` once more (`Edited`) before the reaction is taken back (`TakeBack`).
`Destroy` may run between any two of these steps; `usedFreed` and `outOfRange` record what is
undefined in C++, `caught` that the destructor ran while a thread was beyond its test
(`BeyondTest`).

### ServerCache and UserCache

The platform changes (`AddServer`, `ChangeRole`, ...) and tells of it in order; the worker
handles Ready and starts a thread for every other event (`Work`), whose listener runs at any
later time (`RunListener`): so events overtake each other. `StartErasing` and `Erase` are the
removal that sleeps 500 ms. While the socket is closed events are lost, and the next Ready
adds and overwrites. `late`, `disordered` and `missed` say of which server, channel or member
that was so. In `UserCache` the three writers of one entry meet: Ready, the author of a
message (written twice, without a bot flag), and `fetch_user` (`BeginFetch` copies the entry,
`AskProfile`, then `WriteBack` over whatever is there). Each entry carries the number of what
it was learnt from.

### Timers and ClusterLifecycle

`Timers` counts time in ticks of 500 ms, the wait of the loop. `Collect` is the block under
`timers_mutex_` that copies what is due; `RunNext` and `CallbackEnds` run without it, so
timers are started and stopped under a pass. `Due` truncates to seconds. `ClusterLifecycle`
splits `start` and `stop` at each access to `running_`, `timers_running_` and
`timer_thread_`: main, handlers and timer callbacks may all call `stop()`, the bot may call
`start()` again and destroy the cluster. A timer's callback that calls `stop()` detaches
its own thread.

### RestClient, ImageUpload, AsyncCalls

Every call of `RestClient` is one request of one wrapper: `Begin` asks the limiter once,
`Send`, then `NoResult`, `Success`, `Rejection` or `Limited`. Two exceptions are reported to
nobody, whatever the limits: the first `Send` may be `Unsent`, because the bot's hook throws or
`body.dump()` meets a text that is no UTF-8 (`rest.cpp` 87), and a `Rejection` may meet one in
an answer that is no JSON either (186). A limit stored under the name of an
`X-RateLimit-Bucket` is in `buckets`, but no call asks for it (61). The platform carries a request
out (`CarryOut`), refuses it or answers 429 (`Refuse`), and may carry it out after its
sender gave up (`CarryOutLate`). `buckets` are the limiter's entries: the request's own path,
or the one the answer's header names. The clock is finer than the millisecond to which
`check` truncates. `ImageUpload` counts lost answers and 429s alike, as `upload_file` does,
and settles the type of a fetched image from caller, header and first bytes (`EffectiveMime`,
`Described`). `AsyncCalls` groups the wrappers by what they do with the answer (`KindOf`); the
whole body of a thread is one try block, so a callback that throws is called again, with
failure, by `Catch`. `DeleteLater` is the second thread of `send_message`, which nothing
catches: whatever its request throws ends the process.

### RoleUpdates, ReactionRoles, CategoryMoves

A call gets the list (`GetAnswered`), and the platform applies the changed list once for each
try that reaches it (`Apply`): a try that timed out may come through after a later one was
answered, when the call has ended, as `RestClient.CarryOutLate` has it. `Outside` is anybody
else. `touched` says that somebody else changed the roles after a call's GET, `stale` that its
list was applied although they had. `ReactionRoles` adds the example bot: odd events give the
role, even ones take it, each handled on its own thread by starting a call of `RoleUpdates`. `CategoryMoves` has the same shape for
`move_channel_to_category`; `Moved` is the change of the list: the first category whose id or
folded title fits, or a new one, whose id is "default" or drawn from `rand()`. `Restart`
begins the draws again, since nothing seeds them.

### VoiceConnection, SignalCodec, PulseVoice

`VoiceConnection` follows three threads: the bot's (`app`), the socket's in its callback
(`callback`) and the send loop (`loop`). `connect` begins with `disconnect`, and both join
threads; `locked` is `connect_mutex` held across the `disconnect` of a timeout. The last
callback of an open socket is Close, of one that did not open Error; `asked` is `ws.stop()`.
All of `handle_binary_message` is there: `JoinResponse`, `TrackPublished`,
`SetRemoteDescription` for the offer and the answer, and no action for the trickle, which adds
a candidate inside a catch of everything and changes no state of the model. The others are in
no try block, so whatever the WebRTC library throws on (a description that it refuses, a peer
connection that cannot be made, a track that was closed) ends the process (`Given`). So may a
message that is cut off, which is read beyond its end (`CutOff`). `unfit` is the history of
both. Samples in `queue` stay there through `disconnect`, as those of `pcm_queue` do.

`SignalCodec` says what is read. `Write` is what `pb_writer` puts out; a message is a sequence
of requests, and those that hold an answer, an offer or a trickle have a reader of their own.
`ReadRequest` is a turn of the outer loop, `ReadField` one of the inner, on every prefix of a
message. A nested reader begins in the message and has the length that the message claims
(`base`, `size`), not the one that is there. Numbers and offsets are modulo `Word`, field
numbers and targets modulo `IntWord`, and no more than `WordBytes` bytes of a varint can be
shifted into a `Word`. To shift by more, or to read behind the message, is undefined: `stray`
is set and nothing said of what follows. The join response and the published track have
readers within their readers, of the same kind, and are left out. `PulseVoice` is what the defaulted moves do
with `pimpl_`: `MoveAssign` deletes an impl whose streams stay open, and a client that was
moved from uses a null pointer (`culprit`).

## Runs

Parts of the system that share no state are checked side by side in one run: the variable
`part` is chosen in the initial state, the instance of that part takes steps, and the
variables of the others stay as they are. Each property is guarded by, or indifferent to,
the other parts. In `MCCommandDispatch`, where the parts are questions about one module,
`Within` restricts the steps to the messages and changes that matter to the question.

| Run | Parts and bounds | Shows |
|---|---|---|
| `watchers_safety` | 3 watchers, 2 messages, 1 channel, 2 users, one ignored; symmetry | `RepliesAreOwn`, `FirstComeFirstServed` |
| `watchers_answered` | 2 watchers, 2 messages, 2 channels, 1 user | `EveryRequestIsAnsweredOnce`: refinement of `OneShotReply`, with its liveness |
| `events` | pipeline: 2 control events, 2 others, 1 malformed, 1 thread; bulk: a Bulk in a Bulk, six types, 2 handlers of 3 lists, 1 user; mixed: a Bulk and 2 payloads of the worker | `NoLostWakeup`, `StreamIsKept`, `HangsOnlyByMissedNotify`, `DestructionEnds`, `DeliversTheStream` (refinement of `EventStream`); `RoutingIsSound`; `PayloadsEnd` |
| `session` | authentication by event, or by the URL; 2 queued Authenticated | `EarnedUnlessLate`, `SafeUnlessOverlapped`, `StopIsFinal`, `DisconnectReturns`, `ConnectionIsKept` |
| `dispatch` | cooldowns: 3 messages, 2 users, half seconds, 4 ticks; outcomes: 2 messages or edits, 5 words, 2 commands; permissions: 1 dispatch, 1 role, 3 versions of the server | `RemainingIsEnough`, `LimitsByCooldown` (refinement of `CooldownGate`); `OneOutcome`, `DispatchesEnd`; `RunIsAuthorised` |
| `rest` | alone: 1 request, 2 retries, two 429s; thrown: the same with limits not respected; pair: 2 requests of one path, half milliseconds; upload: 1 image of every description; calls: 2 detached calls of six kinds; throwing: 1 call whose 429 throws | `OutcomesAreTrue`, `ImplementsReportedCall` (refinement of `ReportedCall`); `KnownLimitIsObserved`; `AnswersAreTrue`, `AnswersCome` |
| `server` | calls: 2 calls on 2 roles, 2 tries, 1 change from outside; reactions: 3 events; moves: 2 calls, 4 lists, 7 names, 1 restart; names, members: 5 events of a server; users: 1 bot, 2 fetches, 2 tellings | `LostOnlyByOvertaking`, `UndisturbedIsExact`; `ReactionsAreFollowed`; `MovesAreSound`; `CacheFollows`; `EntriesHaveCause` |
| `cluster` | timers: 2 timers, 4 ticks; lifecycle: 2 starts, 1 handler; help: 1 menu of 6 or 7 commands, 2 users, 2 reactions; pages: 3 pages, 2 sends, 2 reactions | `TimersKeepTime`, `TimersRun`; `StopIsSafe`, `HandlersEnd`; `MenusAreSound` |
| `voice` | streams: 3 clients; connection: 3 connections, 2 tracks each, 3 samples; signals: 13 fields, a trickle of 2, a description of 1, or 2 requests of 8 kinds; every prefix; `Word` 65536, `IntWord` 4096 | `StreamsAreKept`; `ConnectionIsSound`, `CallsReturn`; `MessagesAreRead` |
| `pipeline_threads` | 1 control event, 2 others, 2 threads | violated: `DispatchThreads` |
| `session_heartbeat` | authentication by event | violated: `Heartbeat` |
| `voice_timeout` | 2 connections, 1 sample | violated: `ConnectReturns` |

Several properties are conjunctions of what their module states separately, each with its
own comment there: `RoutingIsSound` is `CallsInOrder`, `LossHasCause`, `IgnoredAreUnheard`;
`ConnectionIsKept` is `SocketComesBack`, `WatchdogPersists`, `HeartbeatUnlessOverlapped`; and
so on. Where no theorem states a module's type invariant by itself, its property includes it.

Why the bounds are enough. Three watchers let two overtake a third; two messages let two
threads search at once while timeouts run; a second channel is only needed to tell a
matching watcher from another. Two control and two other events give every order of a pair
of each kind; one available thread makes the failure of `std::thread` reachable. Two queued
Authenticated events give one of an earlier and one of this connection at once. Three
messages let a use be refused because of one while a third, by another user or name, goes
on; half seconds are the coarsest clock on which truncation shows. Dispatches share nothing
but the cooldowns and a counter, so one thread is enough for permissions, where the world
changes instead. Two retries tell a counted retry from an uncounted one; two requests are
what it takes for one's answer to change the bucket another waits for. Two calls that
read, change and write are the smallest overlap, and three reactions the fewest whose last
two can be swapped with the result differing. Five events of a server let a removal sleep
while the server returns and changes. Two starts and a handler give two calls of `stop()` at
once and a loop of an earlier start. Seven commands are a page more than six. Three clients
can be moved in a ring; three connections let something of the first meet the third. Two
fields of a trickle let one that is skipped hold what looks like the next, and two requests
let the outer reader go wrong by what the inner one did. A `Word` of sixteen bits is larger
than any length and has varints of one, two and three bytes; the field values are at its bounds.
`MaxClock`, `MaxTime`, `MaxEvents`, `MaxTold`, `MaxChanges`, `MaxOutside`, `MaxRestarts`,
`MaxRefusals`, `MaxSends`, `MaxSamples`, `MaxTracks`, `MaxConnects`, `MaxStarts` and
`MaxCommands` bound what could go on for ever. Symmetry is used where only safety is checked.
Deadlock is not checked: all systems may stop (the bot asks for nothing more, every message
is dispatched, the gateway is destroyed, the process was terminated).

Several properties have exceptions written into them, because the code has them: the window
of the unlocked flag (`Hang` in `DestructionEnds`), overlapping routines
(`SafeUnlessOverlapped`), overtaking (`LostOnlyByOvertaking`, `CacheFollows`), a `start()` that
overwrites `running_` (`StopEndsStart`), a timeout of `connect` (`CallsReturn`). Each says that
its exception is the only one; it does not make the exception harmless. Where the code lets a
hazard happen (a late Authenticated sets the flag, overlapping events leave the caches wrong, a
stale copy is written over a user, an overtaken call takes a role back, ids repeat after a
restart, `connect` hangs at its timeout, a moved-from client uses a null pointer) these
properties hold because the history names it: they say that nothing else goes wrong the same
way. Three of the exceptions are shown as violations of what the repository says, below; the
others are listed under "Other observations".

### What the violated runs show

- `pipeline_threads`: `client_config.h` says `event_thread_count = 1; // threads for
  dispatching events`; no code reads it, and every event that is no control event gets a
  thread (`gateway.cpp` 69).
- `session_heartbeat`: an Authenticated event of a closed connection is handled late; its
  `schedule_ping` starts `ping_thread` between the test of `on_disconnected` and its end, so
  a joinable thread with `ping_thread_running` false remains; the next `schedule_ping`
  assigns over it, which is `std::terminate`.
- `voice_timeout`: at its timeout `connect` calls `disconnect()` with `connect_mutex` locked;
  `ws.stop()` joins the socket's thread, whose Error or Close callback waits for that mutex.

### Other observations

What the exceptions above let happen, seen while modelling:

- Two `add_role_to_member` calls at once both report success, and one role is missing
  (`moderation.cpp` 166), and so may one whose first try is carried out late, after another
  call has ended (`rest.cpp` 114); the reaction roles example can end with the role and
  without the reaction, since its events run on threads of their own or a try comes late.
- A message of a bot takes back the bot flag that Ready set, which `cache.cpp` 36 calls
  authoritative (`commands.cpp` 326); `fetch_user` writes an old copy over a newer entry.
- A restarted bot draws the ids of new categories from an unseeded `rand()` again, so two
  categories can have one id (`rest.cpp` 581).
- `rest_thread_count` is read nowhere; every caller sends its own request.
- A paginator destroyed between a test of `alive` and the uses that rely on it is used after
  it was freed: by the answer of a send, which sleeps for 100 ms in between (`paginator.h`
  52-62), by a listener (63-100) and by the callback of an edit (96-97).
- A signalling message that is cut off is read beyond its end: a nested reader has the length
  that the message claims (`voice_connection.cpp` 246-248). The sum of offset and length may
  wrap (67, 78), and a varint of more than ten bytes is shifted by 64 and more (58).
- An offer or an answer that the WebRTC library refuses ends the process: unlike the trickle's,
  their branches are in no try block (`voice_connection.cpp` 269, 289).
- `disconnect` does not clear `pcm_queue`: the next connection begins with the samples of the
  one before (`voice_connection.cpp` 626).
- A `pulse_voice_client` that was moved from uses its null `pimpl_` in its destructor
  (`pulse_voice.cpp` 25), and a move assignment leaves the streams of the old impl open.
- `start()` sets `running_` after `connect()`: a `stop()` from a handler in between is
  overwritten (`cluster.cpp` 65).
- Authenticated nested in a Bulk event would be handled on a detached thread at once with the
  worker (`gateway.cpp` 364).

### Fairness

Weak fairness for every thread that can take a step: threads that run are scheduled, sleeps
and timeouts end, handlers of the bot return or throw. None for what others decide: calls of
the bot, arriving events, opening and closing connections by the server, its answers,
spurious wakeups, reactions, the calls of `disconnect` and `~gateway`. A gateway socket that
was asked to stop does close. In `CommandDispatch` every dispatch that began goes on: requests
are answered or fail (the code sets a timeout on each try and counts them; a server that
answers 429 for ever, which the code obeys for ever, is excluded; `RestClient` bounds it by
`MaxRefusals`). In `RestClient` each try ends, answered or timed out. In `EventRouting` the
thread of a payload goes on as long as it has something to do. In `VoiceConnection` a socket
that was asked to close does so although messages may keep its thread busy, which is strong
fairness of `Close`: ixwebsocket closes between two messages, however many there are.

## Proofs

All theorems hold for every value of the constants: any number of threads, calls, messages,
servers, events, pages or retries, not the few of a run. The assumptions are those the modules
name. Most say that a bound is a number, that threads differ, that a marker is none of the values
it stands beside, or of what types and lengths the data are: `MarkersAreNew`, `EventKinds`, `ThreadNumbers`, `SessionConstants`,
`DispatchConstants`, `UnsetIsNew`, `CallsHaveMethods`, `RestConstants`, `AsyncConstants`,
`BoundsAssumption`, `EventNumbers`, `CacheConstants`, `UsersConstants`, `ConstantsAssumption`
of `Timers`, `LifecycleConstants`, `HelpConstants` (the arrows are two emoji),
`PagingConstants`, `NullAssumption`, `VoiceConstants`, `SignalConstants` (a field has a value
of its wire type), `Items` (no event is inside itself, however deep). `MovesConstants` says more: that the
categories a server begins with are sound, and that the numbers `rand()` gives in one run are
new and differ, which is why ids are said to differ only until a restart. Each module's
argument:

- `MessageWatchersProofs`. `Ownership` is inductive: a watcher is owned by the list, by its
  timeout thread, by one message's thread, or by nobody any more, and only the owner can
  call back. `AtMostOneCall` alone is not inductive: it does not say that a thread about to
  call is the only one. From `Ownership` follow the type invariant, `RepliesAreOwn`,
  `FirstComeFirstServed` and the safety part of the refinement of `OneShotReply`.
- `EventPipelineProofs`. `QueueInv` (what was taken followed by what is queued is what was
  received; the worker parks only on an empty queue) gives `NoLostWakeup`, `TakenInOrder` and
  `HangsOnlyByMissedNotify`. `OrderInv` adds that each payload is in exactly one place and
  that the handled control events are ordered; it gives `StreamIsKept` and the safety part of
  the refinement of `EventStream`.
  - Routing, `RoutingInv`. What is left of a thread's list is the rest of `Flat`, whichever
    Bulks were opened (`Reading`), so the calls follow the message and, of one event, the
    list of its type (`Ordered`, with `Calls` for the list under way). `Complete`: of an event
    that is over, each handler registered at the start was called, or its user was ignored at
    some moment; `Unheard`: each user told of was not ignored at some moment (`Watched` gives
    these histories the present). `Began` and `Once`: lists only grow, and no handler is twice
    in one. They are inductive together and give `RoutingIsSound` (`RoutingHolds`). TLC found
    the invariant in all states of run `events`. That `Flat` has a value on any nesting
    (`FlatUnfolds`) and that the laws of `FlattenSeq` hold for any length are shown by
    induction in the form these provers can take: a set of counterexamples would have a least
    member.
- `GatewaySessionProofs`. `RoutineInv` says, for a thread that is alone in its routine, what
  flag and thread are at each of its lines; with `NotEntered` (a callback about to start has
  no routine under way) it is inductive and gives `SafeUnlessOverlapped`. `FlagInv` follows
  an authentication from the server to the flag and gives `FlagIsEarned`; `WatchdogGone`
  gives `StopIsFinal`. They are of `Spec`, for either way to authenticate (`EventByDefault` of
  the MC module is used by no proof); `ClaimIsEarnedUnlessLate` is the same where the MC module sets
  both ways side by side.
- `CommandDispatchProofs`. `DispatchInv` adds to the types: what the place of a thread says
  of its message and its cooldown (`StageInv`); that `last` is the latest accepted use of its
  key (`CooldownInv`); that what a thread has read is in its histories (`HistoryInv`); and
  how runs, reports and the catch go together (`OutcomeInv`). None of the properties is
  inductive without it: `RemainingIsEnough` needs the accepted use behind `last`,
  `RunIsAuthorised` that the fetched roles were held. `OneOutcome` is inductive relative to
  it. `RefusalHasReason` is the arithmetic: truncated seconds compared in seconds agree with
  ticks. With `CooldownInv` it shows that every decision is one of `CooldownGate`
  (`ImplementsGate`), and everything else a stutter or a tick.
- `RestClientProofs`. For each call: `Phased` (what the stage of the task says of its request),
  `Tallied` (effects, tries still on their way and lost answers balance: a request that
  creates something was carried out at most once for each lost try and once more) and
  `Awaited` (the wake-up time lies beyond the limit seen, but for the truncation, whose
  arithmetic is the lemma `Truncation`). `Tallied` gives `OutcomesAreTrue` and the steps of
  `ReportedCall` (`RestIsReportedCall`); `Awaited` gives `KnownLimitIsObserved`.
  `UploadInv`: what is stored beyond the lost answers is due to the one answer under way or
  returned, and what was fetched is described before it is first sent. `AsyncInv`: from where
  a thread is follows how often it has told its caller, that a success was carried out, and
  which fault accounts for a failure or a second call. Together they give `AnswersAreTrue`.
- `RoleUpdatesProofs`, a section for each part of its run.
  - Roles. `KnowsRoles`: a call that nothing touched knows the roles, before and after its
    list was applied. `HasToWrite`: it writes only to change something. `AddedIsThere`: a role
    that was added is there unless an overtaken call has written. They are inductive together;
    the two properties follow.
  - Reactions, `ReactInv`. Without an overlap the handlers ran in the order of the events and
    only the last one's call is under way (`InTurn`); so no call is touched, and the role is
    what the last report says (`RoleIsUpToDate`). It rests on `RolesInv`.
  - Cached users, `UserInv`. A user two of whose writers never met has one writer at most, and
    what it will write is no older than what the bot was told last (`OneWriter`, `Newest`); a
    flag or a bio that is not the platform's has its cause in the copy it came from too
    (`Grounded`).
  - The cache of servers, `CacheInv`. The property speaks of the end, when every event is
    handled; the invariant speaks of any moment. It looks at one aspect at a time: that a
    server is there, its name, a role, a channel, a member. `Before(s, k, x, n, v)`: applied in
    their order, the events numbered below n that are still on their way make the aspect v.
    `Current`: all of them make it what the platform has, where the bot was told and no older
    event was applied after a newer one. `Effective`: an event that asks for something will
    find it. `InOrder`: what waits for the worker is newer than what is on a thread. A step
    of the platform adds a last write; a listener applies what is pending already.
  - Categories, `MovesInv`. Every list that the server has, or that a call may still write, is
    sound (`SoundList`), and moving one channel keeps a list sound; an undisturbed call's
    list is a move of the one it replaces (`Prepared`).
- `TimersProofs`. `Paced` counts a copied callback before it runs, so that `last_run` is a whole
  number of intervals behind at every step; `Once` says that what is active or copied has
  not run after a stop. They give `NeverAhead` and `OnceAfterStop`, together `TimersKeepTime`.
  - The cluster, `LifecycleInv`. A loop that lives and that `timer_thread_` does not hold has
    detached itself in a `stop()` (`DetachedItself`), so two loops live only if one was started
    under the other's `stop()`; whoever is past `timer_thread_` left it empty (`ThreadTaken`);
    a thread that nobody has taken keeps `running_` set or a `stop()` on its way (`StopComing`).
  - The paginator, `PageInv`. As long as no two handlers worked on the page at a time, the test
    a handler made of it still holds when it changes it (`TurnsAreSerial`). A thread that is
    beyond the test of a dead paginator was so when the destructor ran.
  - Help menus, `HelpInv`. Turns are numbered without gaps and each number belongs to one
    reaction (`NumberedOK`); the last one chose the session's page (`ReactionsOK`), which is
    the difference of the turns modulo the pages, by lemmas on remainders; and the turns after
    the one a message shows are still in work, unless an edit failed or was overtaken
    (`ShownOK`). So when none is in work, the message shows the last turn's page.
- `PulseVoiceProofs`. `Separate`: pointers of two clients differ, and only living clients have
  one; `OpenHasOwner`: an open stream's impl has an owner or was overwritten. They give
  `StreamsAreKept`. `ConnectionInv`: in which callback the socket's thread can be at each stage
  of the socket (`SocketStage`), who holds the lock and why (`AppStage`), that a verdict or one
  about to be set was answered on this connection (`AnswerIsOwn`), and that a second send loop
  comes with a second track (`LoopHasTrack`). It gives `ConnectionIsSound`.
  - Signals. The varints' recursive functions have their equations by the same induction
    (`VarintLaw`, `ReadLaw`); so a varint is read back as the number written, by as many bytes
    (`VarintIsRead`), and a field as what there is to keep of it (`FieldIsRead`), at any place
    within a reader that is within the message. `SignalInv`: the outer reader of a whole
    message stands behind one of its requests, and all before it are kept (`Outside`), or the
    nested one is the last request's and stands behind one of its parts (`Within`). It gives
    `WholeIsRead`, for any messages shorter than a `Word` (`SignalsStayRead`).

Only model-checked:

- the liveness properties, and the fairness parts of the refinements (`CooldownGate` states
  none): liveness under fairness is beyond TLAPS. Of `MessagesAreRead` that is `ReaderEnds`;
- `NothingElseIsRead` of `MessagesAreRead`, about messages that are cut off.

## Not modelled

Message contents, JSON, HTTP and the WebSocket protocol are data or environment. Plain models,
their reading from and writing to JSON, exceptions and the logger have no behaviour to check.
Of `dispatch_command`, the bot's preprocessor, prefix resolver and disabled checker are its
own code, and the ranking of suggestions is text. `cache_server`, `cache_user` and
`cache_member`, which only a bot calls, are further writers of the caches. `registered_commands_`
changes only in `HelpSessions`. The examples other than the reaction roles bot only call the
library.

Four hazards are known and have no property. A handler of `on_logout` that calls
`cluster::stop()` runs on the socket's thread, on which `disconnect()` would wait for itself by
way of the watchdog (`gateway.cpp` 263); a socket that is reconnecting is not stopped by
`disconnect()` (`gateway.cpp` 157); detached threads use a gateway after its destructor
(`gateway.cpp` 69); samples of an old voice connection are sent on the next one
(`voice_connection.cpp` 626). In `GatewaySession` `disconnect()` is called by the bot's own thread only;
what happens after the destructor is undefined.
