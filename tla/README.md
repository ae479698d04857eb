# Verification of the Tidewave app

Tidewave runs a local server (`tidewave-core`) that a browser talks to over one
WebSocket and a few HTTP endpoints.  Over the WebSocket it multiplexes channels:
coding agents that speak ACP (`acp:`), a reverse proxy for the agents' MCP
requests (`mcp:`), file watching (`watch:`) and terminals (`terminal:`).  What can
go wrong is mostly concurrency: tasks of one tokio runtime that share processes,
sessions, maps and queues, clients that vanish and come back, agents that die.

This directory holds TLA+ modules for that core, their TLC configurations and
TLAPS proofs.  `src/` paths are relative to the repository; `acp.rs`,
`connection.rs`, `mcp.rs`, `watch.rs` and `terminal.rs` are in
`tidewave-core/src/ws/`, `server.rs`, `command.rs` and `http_handlers.rs` in
`tidewave-core/src/`, and `lib.rs` is that of `src-tauri/src/`.

## The system

| Part | State | Operations | Hard behaviour |
| --- | --- | --- | --- |
| ACP process lifecycle (`acp.rs`) | `processes`, `process_lifecycle_locks`; per process `init_state`, `connect_epoch`, `exit_tx`, `exit_broadcast` | join, initialize, exit, leave, inactivity timer, exit monitor | joins, timers and monitors race for one registry entry; exit events must reach everyone; one initialize for many clients |
| ACP session ownership (`acp.rs`) | `sessions`, `session_lifecycle_locks`; per session owner, `cancel_counter`, `cancelled` | load, resume, new, fork, close, disconnect, reap | clients reconnect while reapers wake and late answers arrive; the lock of a session is itself removed |
| ACP relay (`acp.rs`) | `inflight_requests`, `message_buffer`, `channel_senders` | route, buffer, catch up, acknowledge | no message may be lost between a disconnect and a reconnect |
| Connection (`connection.rs`) | map of handles, `JoinSet`, outgoing queue | join, leave, message, exit of a task, close | a topic is left and joined again while its old task still runs; panics |
| MCP relay (`mcp.rs`) | `sessions`, `awaiting_answers` | register, request, answer, clean up | an HTTP request meets a browser that leaves or reconnects |
| Watcher (`watch.rs`) | `watchers`; per path a `started` flag, a broadcast queue, one task | join, event, terminate, idle check, clean up | a joiner meets a watcher about to stop; a slow channel loses events |
| Terminal (`terminal.rs`) | a PTY, a reader thread, a bounded queue | input, output, exit, disconnection | both directions block; descendants of the shell keep the PTY open |
| Downloads (`http_handlers.rs`) | `downloads`, files in the cache | request, progress, store, extract, set mode | requests share a download, instances share the cache; failures and crashes leave files |
| File API (`server.rs`) | the file system | write (plain, exclusive, guarded), delete, copy, move | check and write are apart; requests overlap; a blocking thread outlives its handler |
| Shell and command API (`server.rs`, `command.rs`) | a process group and its pipes per request | spawn, stream, status, kill on drop | descendants hold the pipes; a client goes away |
| Server and desktop application (`server.rs`, `lib.rs`) | three listeners, a shutdown channel, the main thread | set up, bind, shut down, clear, quit, restart | the main thread waits for a task that waits for listeners, commands and a dialog; agents are started and removed while they are cleared |
| Codec, configuration, proxy, environment, CLI | - | - | sequential |

**Interaction.**  A connection spawns one task per joined topic and gives it a
queue of incoming messages; the task ends when that queue closes, which happens
when its handle leaves the connection's map.  An ACP channel finds or starts the
process of its command and directory, subscribes to its exit broadcast, and relays
JSON-RPC between the client and the process.  The stdout task of a process handles
what the agent sends and routes it to the channel that owns the session.  When a
channel ends it releases its sessions, schedules reapers, and, if it was the last
one, an inactivity timer for the process.  Agents reach the browser's MCP tools by
HTTP requests that wait for an answer from an `mcp:` channel.  On quitting, the main
thread of the desktop application signals the server and waits for it; the server
shuts its listeners down, which cuts off the commands still streaming, and then goes
through the registry of processes and tells the agents it finds to stop.

## Modules

| Module | Models | One step is |
| --- | --- | --- |
| `AcpLifecycle` | the processes of one key in `acp.rs` (`init`, `start_acp_process`, `handle_initialize_request`, `spawn_process_stop_after_inactivity`) | code between two awaits at which another task can interfere |
| `AcpSession` | one session of one process in `acp.rs` (loads, claims, answers, reapers) | the same |
| `AcpOutbox` | the messages of one session and one client in `acp.rs` | the same; the client's connections are part of the model |
| `Stream` | abstract: what a client may rely on when it reconnects | one message sent, one message seen |
| `ChannelConnection` | one connection and one topic in `connection.rs` | one branch of `select!`, or one step of a channel task |
| `McpRelay` | one session id in `mcp.rs` | one access to a shared map |
| `Watch` | one directory in `watch.rs`: its channels, its watchers, the file system | one access to the map or the queue, or one branch of `select!` |
| `Download` | one key in `http_handlers.rs`: requests, downloads, instances that crash | one access to the map, the queue or the file system |
| `FileRequests` | the requests of `server.rs` that change files, and the file system | one system call, as the file system orders them |
| `Terminal` | one terminal: client, event loop, reader thread, PTY, shell and what it starts | one branch of `select!`, one blocking call, one step of the reader or of a program |
| `CommandStream` | the commands of HTTP requests (`stream_process_response`, `ChildProcess`) | one read or wait, one step of the process group |
| `Server` | extends `CommandStream`: setup, listeners, shutdown, `WsState::clear`, main thread | one step of a task, a listener or the main thread; of the clearing, one entry of the registry |
| `MC*` | instances for TLC (model values, symmetry) | |
| `Channels_proof` | theorems about `McpRelay` and `Terminal` | |
| `Server_proof` | theorems about `Server`, `CommandStream` and `FileRequests` | |
| other `*_proof` | theorems about the module of that name | |

`AcpSession` and `AcpOutbox` look at the same code from two sides: the first has
ownership and reaping with the session lock in full, the second has the messages
and takes the session lock as mutual exclusion of loads.  `AcpOutbox` implements
`Stream` (`StreamSpec`, a refinement mapping in which `received` is the last
message of the agent the client has seen), and so does `Terminal` (`emitted` is what
the shell wrote, `received` what was sent to the client; proved only).  `ChannelConnection` is what ends the
tasks of the other channel modules: their `Leave` is the removal of a handle there.
`Server` composes the commands of `CommandStream` with the listeners that carry
their responses; of an agent it keeps whether it is registered and whether it was told
to stop, which is `exitSignal` in `AcpLifecycle`.  The iteration of the clearing is a
set of places it has passed (`passed`): an agent that is listed before it begins is
found, one that is listed later (`"late"`) may be, one that is being started, or that
its idle timer or the monitor of a predecessor has removed, is not.  `Watch`, `Download`, `FileRequests` and `Terminal`
share nothing with the rest.  Two components that are proved about in one module have
their names told apart: those of `Terminal` and `FileRequests` begin with `Terminal`
and `File` (`TerminalSpec`, `FileSpec`).

**How the state corresponds to the code.**  A variable has the name of the field it
models (`processes`, `connectEpoch`, `sessions`, `awaiting`).  `pc`, `task`, `chan`,
`req`, `stdout`, `reaper`, `timer` and `monitor` say where a task stands.
One key, one session id and one topic are modelled because entries of these maps
do not affect each other.  Where an action merges several statements, no other
task can tell: `TimerFire` is a whole critical section of the lifecycle lock,
`MonitorBroadcast` locks and broadcasts with nothing in between.  Guards of a
`DashMap` that the code keeps across other work are modelled, as
`RegistryWritable` and `guards`: whoever changes the entry waits for them.

In `Terminal` the PTY is that of Linux: it hangs up when nobody holds its other end
(`PtyOpen`).  Descendants of the shell (`jobs`) may hold it after the shell has exited;
they may be told to hang up then, and end (`jobs' \in {jobs, FALSE}`).  The program in the
foreground reads its input or does not (`reads`).

**History variables** record what properties need to say and influence nothing:
`refused` and `forked` (`AcpSession`), `lost` (`AcpOutbox`), `stolen`
(`ChannelConnection`), `late` (`Watch`), `got` and `panicked` (`Download`), `stale`
(`FileRequests`), `failed` (`CommandStream`).  `minted` is an assumption on agents: they draw fresh
session ids, so session/new does not answer with an id the agent has used.

**Faulty variants** (operators described so, next to the action they vary) are no
part of a specification: each shows that a property would notice a plausible bug.

## Runs

| Run | Configuration | Question |
| --- | --- | --- |
| `lifecycle` | `AcpLifecycle.cfg`: 2 channels, 2 processes, fairness | Do joins, timers and monitors keep the registry, the exit event and the shared initialize right, and do clients reach their process as long as none was stopped? Is every join answered, every waiter released, every exit delivered, every idle process stopped? |
| `lifecycle_idle_stop` | `AcpLifecycleIdleStop.cfg` | Does the timer spare connected clients? **No.** |
| `session_ownership` | `AcpSession.cfg`: 3 channels, 3 requests, 3 reapers, 2 instances | Do dead channels lose their sessions, does every orphan have a reaper, does the lock protect? |
| `outbox` | `AcpOutbox.cfg`: 3 connections, 3 messages, 1 prompt | Does the client see the stream without gaps, and are answers kept? |
| `connection` | `ChannelConnection.cfg`: 3 joins, 2 messages, fairness | Do messages and announcements stay with their join, and do channels end with the connection? |
| `mcp_relay` | `McpRelay.cfg`: 2 channels, 2 requests, fairness | Is no agent left waiting, no entry left behind, no reconnected browser unregistered? |
| `watch` | `Watch.cfg`: 2 channels, 3 entries, queues of 2 and 1, fairness | Has a path one watcher, does its end reach every channel that lags behind, is nothing left when its clients have gone? |
| `download` | `Download.cfg`: 2 instances, 2 requests, a queue of 2, fairness | Is "done" said only of a complete plain file, are temporary files removed, is every request answered? |
| `download_partial` | `DownloadPartial.cfg` | Is "done" said only of complete files, archives included? **No.** |
| `files` | `FileRequests.cfg`: 2 paths, 3 requests | Is an exclusive write exclusive, does a guarded one overwrite only what was expected, is an emptied file accounted for? |
| `terminal` | `Terminal.cfg`: buffers of 1 and 2 units, 2 messages of 2 units, 5 units of output, fairness | Is the exit told after the output, and do shell, channel and reader end together and with the client, whatever the programs in the terminal do? |
| `server` | `Server.cfg`: 3 listeners, 1 command, 1 agent, fairness | Is the status the last of a response, are commands and listed agents told to stop, does quitting come to an end? |

**Bounds.**  The lifecycle run has two channels, so that one leaves or waits while
the other joins, and two processes, so that one has a successor; that the safety
properties hold for any number of both is proved.  `AcpSession` has three channels:
the last owner, the one that reconnects and one more; three requests allow create,
lose and reload.  What it and `AcpOutbox` check is proved without these bounds.
`MaxInst = 2` lets a session be removed and created again while handlers still refer
to the first.  Three messages allow one before, one during and one after a
reconnection, and three connections two reconnections.  Three joins of a topic allow
an exit to be processed one and two joins later.  A watcher has two channels, so
that one can join while it ends for the other; channels join again without limit and
entries nobody refers to are used anew, so its runs are not bounded in length.  Its
queue of two overflows, as does the progress queue of two.  `MaxRaw = 1` is enough:
notifications are converted one by one, and those after the last are never read.
Two paths allow a copy and a move, and three requests a writer, one that comes between
its check and its write, and one that takes the file away.  The buffers of a terminal
hold one unit or two, and there is more input and output than fits into all of them.
One command and one agent meet every combination of the three listeners; commands and
agents do not know of each other, and the clearing treats each place of the registry by
itself (for any number of agents, `AllToldToStop` is proved).  Two instances and two
requests let a request meet a download of its own instance, of the other, of one that
crashed, or one about to end.  Symmetry is used only where no
liveness is checked.  Deadlock is not checked: clients owe nothing, so a model may
stop.

**Fairness.**  Weak fairness of the steps of each task, since tokio polls every task
that is ready; tokio's mutex is first-come first-served and a task takes a lock a
bounded number of times, so weak fairness is enough for acquiring it.  Nothing is
assumed of clients.  `AcpLifecycle` assumes one thing of the agent: asked to
initialize it answers or exits.  `ChannelConnection` assumes that the receive loop
notices the end of its writer (it selects on it).  Its panicked tasks may leave a
sender behind, so nothing is promised about the end of the writer itself.  It also
assumes that a feature whose queue is closed gets to see that.  For ACP, MCP and watch
channels it does; a terminal may be in a blocking call it does not come back from, which
is what `EndsOnDisconnect` of `Terminal` excepts: such a channel outlives its connection.  `Watch`
promises the idle check of a watcher only while no notification comes in, because
every notification starts its thirty seconds again (the sleep is a branch of the
`select!`): in a directory that never rests an unused watcher need not stop.
`Download` assumes that the server answers or fails and that a body ends; its client
limits the wait for a chunk, but not the wait for an answer.  It also assumes that a client
reads its progress or disconnects (`WF(Receive)`): one that does neither is not answered.
`Terminal` assumes weak fairness of the two threads and of each branch of `select!`, which
picks at random among those that are ready; and strong fairness of `ShellRead` and
`ShellWrite`: a program in the foreground that time and again waits for input there is, or
for room in the buffer, gets it.  That says nothing of a program that does not read, of
descendants, or of when anything exits.  `Server` assumes only that its tasks and the main thread are
scheduled: commands may run for ever, clients may stay connected.

## Findings

Two runs find a promise of the code broken:

1. **The inactivity timer can stop a process with a client** (`lifecycle_idle_stop`).
   The cleanup counts receivers and reads the epoch without the lock; a join in
   between bumps the epoch first, and the timer carries the new one.
2. **A failed extraction passes for a finished download** (`download_partial`).
   Archives are extracted to the final path, and what a failure leaves there is
   "already downloaded" for the next request.

## Exceptions

A property that almost holds is stated with its exception, so that the passing run
shows that there is no other:

| Property | Excepts | Because |
| --- | --- | --- |
| `NoEvictionWithoutStop` | keys of which a process was told to stop | the exit monitor of the stopped process removes by key, whatever a new client has registered (acp.rs:1909) |
| `UnownedAttended` | sessions whose load the agent refused (`refused`) | the claim turned the reaper away, and releasing it schedules none (acp.rs:2152) |
| `LockProtectsUnowned` | the time after a mutex was dropped in use (`forked`) | `remove_session` takes it from the map while handlers hold it (acp.rs:640): the next load makes another |
| `AnswerKept` | answers pushed to a dead connection (`lost`) | they are buffered only when their channel has no sender |
| `EndAnnounced` | channels robbed of their handle (`stolen`) that then panic; one that returns announces its end itself | an exit is matched by topic, not by join (connection.rs:132), and the panic of a channel without handle is announced to nobody |
| `OnlyLateJoinersOrphaned` | channels that join between the last act of a watcher and its removal (`late`) | they are answered with ok and never served |
| `IdleWatcherStops` | directories that keep changing | every notification starts the thirty seconds again (watch.rs:357) |
| `PlainDownloadsComplete` | archives and executables | they are complete only after the file is in place |
| `NoTempLeft` | crashes, extractions that panicked (`panicked`) | the error of the blocking task is returned before the file is removed (http_handlers.rs:625) |
| `OneCreator` | paths of which some request deleted or moved the file (`Released`), at whatever time before | the file system orders them, the answers do not |
| `GuardedOverwritesExpected` | paths touched after the check (`stale`): what is left is that the check belongs to the file that is written | nothing is locked between the check and the write |
| `EmptyIsAccountedFor` | exclusive writes, failed or abandoned writes, copies, also those answered with success | an exclusive write is answered before its bytes are in the file; a copy of a file onto itself empties it |
| `StatusAfterOutput` | commands of which a pipe could not be read (`failed`) | the loop ends with the other pipe unread |
| `EndsOnDisconnect` | `Jammed`, `Unread`, `AwaitsDetached` | the loop writes to a program that waits for the loop to take its output, or to a terminal whose input nobody reads (terminal.rs:240); the loop waits for a shell that closed its terminal (terminal.rs:215) |
| `EndTogether` | descendants of the shell that keep the terminal open for ever | the reader gets no end of the file (terminal.rs:176), so that the exit goes unnoticed, and aborting it does not stop it (terminal.rs:265) |
| `NothingForgotten` | agents not listed when the clearing began: spawned and not inserted, or removed without having been told | the clearing sees the registry only (ws/mod.rs:104, acp.rs:932-934, 1909) |
| `NothingForgotten` | servers that ended with an error | the error is returned before the clearing (server.rs:591, 595, 598) |
| `QuitCompletes` | errors of the setup or a listener, when the dialog is not open yet | the server waits for a dialog that the waiting main thread would have to open |

## Proofs

All proofs are for arbitrary sets of channels, processes, joins, requests, paths,
messages, entries, instances, commands and agents, and for queues and buffers of any
capacity, from the assumptions that the value `None` is distinct from them (in
`AcpOutbox` also prompts from numbers, in `FileRequests` paths from requests), that
capacities and sizes are positive, and in `AcpSession` that there are finitely many
channels, none of which is a number.  Every invariant and every action property a
passing run checks is a theorem.  The bounds on counters
(`MaxMsg`, `MaxReapers` and so on) are arbitrary numbers in the proofs.

**Progress.**  Liveness under fairness is beyond the prover.  What it rests on is not,
and is proved where the argument is more than a glance at the next action: that
somebody who can take a step is there as long as something is owed, and that such
steps decrease a measure or lead from stage to stage.  What is then missing is that
tasks which can run do run, which `Fairness` says and the runs check.

| Liveness a run checks | Somebody can step | The steps lead to an end |
| --- | --- | --- |
| `JoinAnswered` | `LockIsPassedOn` | a join goes through its stages once |
| `ExitReachesClients` | `LockIsPassedOn` (the monitor needs the lock) | the monitor too; `ExitNeverMissed` |
| `InitWaiterReleased` | `WaitersAreOwed` | one initialize (`InitializedOnce`) |
| `IdleProcessStopped` | `IdleIsTimed` | a timer fires once |
| `EndsWithConnection` | the steps of a task are always enabled | `DroppedEnds` |
| `WaitEndsWithChannel` | `WaitersAreOwed` (`Channels_proof`) | `CleanupTerminates` |
| `EndReachesChannels` | `ListenersAreServed` | `QueuesDrain` |
| `IdleWatcherStops` | `IdleWatchIsSeen` | channels wind up once; each thirty seconds without a notification end in a check, which finds nobody |
| `RequestAnswered` | `RequestsAreOwed` | `DownloadsRunOnce` |
| `EndTogether`, `EndsOnDisconnect` | `OnlyKnownDeadlocks` | `HangUpTerminates`, once nobody holds the terminal |
| `QuitCompletes` | `OnlyDialogBlocksQuit` | `QuitTerminates` |

The theorems in the middle repeat the guards of the actions they are about in words
such as `LoopCanStep`, since `ENABLED` is beyond the prover too.  They show what the
exceptions of `EndsOnDisconnect` and `QuitCompletes` are worth: there is no other
blocked state, for buffers of any size and any number of agents.

**`AcpLifecycle_proof`.**  `TypeInv` strengthens `TypeOK` by one fact (a task about
to load an epoch has a process).  `ProtocolInv` is the inductive invariant of the
lifecycle lock: tasks in a critical section hold the lock (`LockInv`), the holder
knows what the registry contains (`JoinInv`), a registered process has a monitor
that has not finished (`RegistryInv`), and `NoMissedExit` itself.  It is needed
because none of the properties mentions the lock they depend on.  From it follow
`JoinAlwaysFindsProcess`, `ExitNeverMissed` and `NeverOverwritten`.  `InitInv` says
that at most one channel is about to send initialize, and that it is the first;
`InitializedOnce` and `DeadStaysFailed` follow.  `ReachInv` adds what each client
knows of its process: only its starter has a process that is not registered yet, and
until one is stopped a process that is present is registered or about to be.
`ReachedWithoutStop` follows.  `HoldInv` says that whoever holds the lifecycle lock is
in a critical section; a holder that has to write the registry may wait for the guard of
a cleanup, which waits for nothing (`LockIsPassedOn`).  `WaitInv` adds to `InitInv` that an
init in flight was sent or is about to be.  `AttendInv` says that a process nobody is
connected to has a channel that will still look at it, or a timer with its current
epoch: a join invalidates the timers, and so it, or one that came later, has to be the
one that arms the next.

**`AcpSession_proof`.**  `OwnerIsLive` is inductive with the types.  For
`NoneForgotten`, `AttendInv` adds that a reaper past its sleep is after the very entry
that is registered; without it, a reaper of an earlier entry would do.  For
`LockProtects`, `MutexInv` says who refers to a mutex and who holds one: until a mutex
in use is dropped from the map, all refer to the one in it, so one task is inside;
`GuardInv` says what it protects, and that an entry which is removed takes its mutex
with it.  That a mutex created for a task is one nobody refers to rests on a counting
argument (`FreshMutex`): there is one more of them than there are tasks.

**`AcpOutbox_proof`.**  None of the properties is inductive; they hold together with
`OutboxInv`.  The client has seen a prefix of the stream (`SeenInv`), the buffer has
the agent's messages in order (`SortedInv`), each pipe brings a message only after the
earlier ones (`GapInv`), and an answer buffered before a message was delivered before
it (`AnswerOrder`); so what `prune_buffer` drops and what a catchup skips was
delivered (`SuffixIsRest`).  `AttachInv` is what the read lock is for: from the catchup
on, a channel misses at most the message being routed, which will still reach it.
`NothingUnseenPruned`, `AnswersSurvive` and `LoadCatchesUp` follow, and
`ImplementsStream`: the prefix grows by one message at most with each step.

**`Server_proof`.**  `PipeInv` says that a pipe the response has stopped reading, other
than after a failure, is closed and empty; `StatusIsLast` follows.  `MainInv` says
which listeners have ended at each point of `serve_http_server_inner`, that HTTP is not
optional, and that the clearing leaves no listed agent behind it; `ViaInv` that a command
came through a listener that was bound and has not drained.  `AllToldToStop` follows, and
that only the dialog can hold up quitting.

The same module has the file requests.  `HandlerInv` is their types and `StageOK`: what
a handler has opened at each of its stages.  `CreatorInv` says that a path of which an
exclusive write got the file names one until a request takes it away; since answers are
final (`ReleasedStays`) and nothing else removes a name, `OneCreator` follows.
For `EmptyIsAccountedFor`, `EmptyInv` speaks of all files, those without a name
included, since a move can bring one back, and `OriginInv` says that a file a request
created is open in that request.  `GuardInv` says that between check and write a guarded
request knows what the file held, or the path was touched (`stale`); it makes
`GuardedOverwritesExpected` a property of single steps.

**`ChannelConnection_proof`.**  `HandleInv` ties the map to the client: a handle in
the map is that of the current join, and a current join without one was robbed or
has ended.  `MessagesReachTheirJoin`, `HandlesAreLive` and `EndsAreAnnounced` follow.  `DroppedEnds`
adds that a channel without handle is never given one again.

**`Channels_proof`.**  For the MCP relay, `GuardInv` says what the guard is held for: the
channel a request found stays registered, and has not begun its cleanup, until the
answer is registered and the message pushed.  `EndedChannelsOweNothing`,
`EntriesMatchHandlers` and `ReconnectStaysRegistered` follow.

For the terminal, `OutputConserved` accounts for every unit that was written: it is in
the buffer of the terminal, in the hands of the reader, in the queue or sent.  `EofInv`
says when the reader may have ended: with an empty buffer that nobody can fill any more,
neither the shell nor what it started.
Together they make the closed queue the end of the output (`ExitFollowsOutput`), and
`OutputConserved` is the refinement of `Stream`: whatever the loop takes from the queue
was written and not yet sent.

**`Watch_proof`.**  `EntryInv` says how channels, flags and the map refer to an
entry: a channel has one from its access to the map on, an entry is started once, one
that a channel found and nobody started is the registered one, and what is registered
has not been removed.  With `WatcherRegistered` and
`TypeOK` it is inductive, and `OneWatcherPerPath` follows.  `EndIsNeverLost` rests on a
lemma about `Push`: a queue that overflows drops its head, so the message appended
last, Terminated, stays in it whatever the capacity.  From both follows that a watcher
removes no entry but its own (`RemovalIsOwn`).  `IdleInv` says that an entry in the map
has a watcher that runs, or a channel that is about to start one; so while clients are
gone and anything is left, somebody can step (`IdleWatchIsSeen`).

**`Download_proof`.**  `ServedInv` ties a running download to its instance,
`TempInv` its temporary file to its stage, and `PlainInv` says that without an archive
and a mode the final path only ever holds a complete file.  `TempRemoved` and
`PlainNeverPartial` follow.  `EndedInv` adds that a download leaves the map before it
ends, so that a response never waits for a sender that is only kept there.

**Only model-checked:** the liveness properties; that the end of a disconnected client's
terminal is reached while its program still writes; and the two findings, which are
counterexamples.

## Not modelled

`PROJECT.json` lists every part and why.  In the parts that are modelled: message
contents and ids; the texts buffered before initialize; messages without a session
id; responses of clients to agents; agents of two incarnations in `AcpSession` (a
late answer of a stopped process can insert its session into the successor); which
events a notification of the file system becomes (`Watch`); keys requested with
different parameters and old temporary files (`Download`); the length of grace
periods; heartbeats; notifications in `mcp.rs`, which wait for nothing; a panic of the
task of a download, or a failing removal of its temporary file (`Download`); a listener
whose task panics, other than as one that failed to bind, and the error at server.rs:554,
which only callers that bring their own listener can meet (`Server`).  Nor is a blocked
worker thread: a `DashMap` guard is modelled as a lock, but a task that waits for one
takes a worker thread with it, and where the guard is kept across an await
(acp.rs:1066, ws/mod.rs:104) it depends on the number of workers whether the runtime
goes on.

## Plan

Done: all the modules above with their runs, the proofs of every safety property a
passing run checks, and of the safety halves of the liveness properties.  Left:

1. The pairing of renames in `watch.rs` (`pending_rename_from`), as a function on
   sequences of notifications checked against a reference.
2. `AcpSession` with two incarnations of the process, whose late answers then meet a
   successor.
3. That a disconnected client's shell is stopped while it still writes: there the loop
   needs its luck in `select!`, so no measure decreases with every step.
