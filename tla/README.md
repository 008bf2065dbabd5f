# Verification of Jupyter Server

TLA+ models of the parts of this repository in which several requests, threads,
processes or websockets meet, the TLC configurations that check them on small
instances, and TLAPS proofs of what matters most for instances of any size.
Paths below are relative to `src/jupyter_server/`.

1. Inventory of the system
2. Modules, and how they correspond to the code
3. Runs: what each checks, its bounds, the fairness assumed
4. Proofs
5. Statements of the repository that the code does not keep
6. What is not modelled
7. Plan

## 1. Inventory

The server is one asyncio event loop. A handler runs without interruption until
an `await` that really suspends; between two such awaits it is atomic. Most
`async` methods here never suspend (the sqlite cursor, dictionary lookups,
`ensure_async` of a plain value). What suspends: waiting for a kernel process
(jupyter_client), worker threads for file I/O, websockets and HTTP calls to a
gateway, timers. Every model takes one such uninterrupted stretch as one action.
Other processes (commands, a second server) interleave anywhere.

| Component | State | Operations | What is hard | What makes it correct |
|---|---|---|---|---|
| Sessions (`services/sessions/`) | the sqlite table, `_pending_sessions` | GET, POST, PATCH, DELETE | the row is read, a kernel awaited, the row written; rows outlive kernels and the server | an answer describes the table; a session is opened once, never revived, ends by its DELETE or with its kernel |
| Kernel manager (`services/kernels/kernelmanager.py`) | `_kernels`, `_kernel_connections`, `_kernel_buffers`, `_kernel_ports`, the gauge | start, shut down, restart, buffer, watch, cull | overlapping shutdowns; death during an await; deciding to cull | a kernel is removed once; counts are exact |
| Kernel websockets (`services/kernels/websocket.py`, `connection/channels.py`) | `_open_sessions`, `_open_sockets`, channels, close future, callbacks | prepare, open, nudge, replay, subscribe, message, restart notice, close | a client can leave at each point; streams change hands | one socket per session, order kept, nobody's messages leak, no stream is left open |
| iopub rate limit (`channels.py`, `_limit_rate`) | a queue, two counters, two flags | pass, drop, reset | a dropped message leaves the end while others expire at the head | counters exact, limits kept, output resumes |
| Kernel activity, restart, culling (`kernelmanager.py`) | `execution_state`, `last_activity`, the activity stream, the restart future | watch, restart, cull | a stream that is on old ports; a state that is no longer told | a working kernel is spared, an idle one culled |
| Atomic writing (`services/contents/fileio.py`) | the file, `.~name`, `name.invalid` | save, read, repair | a failure or a kill at any point; threads between loop steps | the last complete save is kept |
| Contents and checkpoints (`services/contents/`) | the tree of files, one checkpoint per file | get, list, save, upload in chunks, new, copy, rename, delete, checkpoint, restore | tests and actions separated by awaits; the file is moved first, its checkpoint later | an operation is as good as one step; a failure leaves no half of it |
| Gateway websocket (`gateway/connections.py`) | `ws`, `ws_future`, `retry`, `disconnected` | dial, retry, read, write, disconnect | callbacks run later than what they wait for | both directions ordered, one websocket, retries bounded, everything ends |
| Gateway kernels, sessions, HTTP client (`gateway/managers.py`, `gateway_client.py`) | mirrored `_kernels`, models, retry counts | start, list, cull, shut down, restart, poll | the mirror is compared after awaits; requests are sent again | the mirror follows the gateway; one start is one kernel |
| Configuration files (`config_manager.py`, `services/config/`, `extension/`, `auth/security.py`) | JSON files in several directories | PUT, PATCH, enable, disable, set password | read, truncate, write, by several processes | what was stored is read back; nothing else changes |
| Server processes and extensions (`serverapp.py`, `extension/`) | listening sockets, info files, callbacks, linked and started points | initialize, find port, bind, signals, confirm, clean up; list and stop commands | a hook that raises; two cleanups at once; ports taken meanwhile | faulty extensions harm no others; after a stop nothing is left |
| Identity (`auth/`) | cookies of browsers, password, token, cookie secret | authenticate, log in, log out, change the user, restart | answers of one browser come in any order | who is logged in stays so, as the same user |
| Websocket keep-alive (`base/websocket.py`), events, HTTP handlers, nbconvert, terminals, metrics, utilities | none that is shared | | | |

Interactions. The sessions service calls the kernel manager to start and stop
kernels and looks in its map to decide whether a row is alive. A websocket asks
the kernel manager for buffers, counts itself there and is told of restarts and
deaths; the culler reads that count and the activity. When the server runs in
front of a gateway, the gateway classes replace the kernel manager, the session
manager and the connection. The contents service reads and saves notebooks
through atomic writing. The configuration files decide which extensions a
server starts and which password it accepts. Callbacks enter the kernel manager
from jupyter_client when a kernel is restarted automatically or dies.

The hazards this code is exposed to are listed in `PROJECT.json` at their lines,
with the properties that would catch them.

## 2. Modules

`MC*` modules only instantiate for TLC (symmetry sets, small trees); `*_proofs`
modules hold theorems about the module they are named after (`RateLimit_proofs`
also about KernelActivity, `ConfigFiles_proofs` about Identity). `PROJECT.json` maps every definition to source lines. A
definition with a name like `Drop_StillCounted` right before `Drop` is a
deliberate fault in it; none of them is part of a specification (section 3, last
paragraph).

| Module | Extends | Models |
|---|---|---|
| `SessionKernels` / `SessionLifecycle` | | handlers of sessions and kernels / the promise |
| `KernelConnections` | | websockets of one kernel |
| `KernelActivity` | | activity, restart and culling of one kernel |
| `RateLimit` | | `_limit_rate` |
| `AtomicWriting` / `AtomicFile` | | save and read of one notebook / the promise |
| `ContentsTree` | | the tree and the tests on it |
| `FileContents` | `ContentsTree` | the synchronous managers: the promise of the API |
| `AsyncContents` | `ContentsTree` | the asynchronous managers and the handlers |
| `GatewayConnection` | | one websocket to a gateway |
| `GatewayKernels` | | the kernel map of a gateway server |
| `ConfigFiles` | | the JSON files and those who change them |
| `ServerExtensions` | | packages, points and hooks |
| `ServerLifecycle` | `ServerExtensions` | server processes |
| `RunningServers` | `ServerLifecycle` | servers with the list and stop commands |
| `Identity` | | browsers, cookies, passwords |

### SessionKernels, SessionLifecycle

`SessionKernels` models the REST handlers of sessions and kernels over the
session table and the kernel map.

| Variable | Code |
|---|---|
| `row` | the sqlite table; ids not used yet or removed are told apart, for history |
| `pending` | `KernelSessionRecordList` of sessions that are being created or deleted |
| `kernel` | stage of each kernel: `launching` and `stopping` are awaits of jupyter_client; `live`, `stopping` are in `_kernels` |
| `metric` | the gauge of running kernels |
| `job` | for every request slot, the await it is in and the locals that it keeps across it |

Each handler is split at the awaits that suspend: for example PATCH with a
kernel name is `PatchKernelName` (read the session, start the kernel), then
`PatchFinish`, `PatchLost` or `PatchFails`, then `SwapShutdown` for the shutdown
it schedules with `ensure_future`. `row_to_model` deletes rows whose kernel is
gone whenever a row is read; that is `Healed` inside each action that reads.
Kernels launch or fail to, die once they have started, and are culled by a
shutdown in a request slot. `ServerRestart` keeps the table and nothing else.

`SessionLifecycle` is the service with atomic operations: open on a running
kernel, rebind, close, kernels end with their sessions. The refinement maps a
row to an open session while its kernel is in the map, and to a closed one after
(`SessionView`), so that a stale row is invisible whether or not it has been
deleted yet.

### KernelConnections

The websockets of one kernel, from the HTTP request to the end.

| Variable | Code |
|---|---|
| `phase`, `key`, `told`, `task` | where a handler is; `session_key`; `close()` called on it; the future `connect` waits for |
| `registry` | `_open_sessions` |
| `count` | `_kernel_connections[kernel_id]` |
| `buffer`, `buf`, `restored` | `_kernel_buffers`, the message lists in it, and the buffer a connection took |
| `stream`, `sock` | `self.channels` and the iopub ZMQ streams: open or closed, which callback is installed, what is queued |
| `kernel`, `ports`, `captured`, `restarts` | the kernel and `_kernel_ports` |
| `surplus`, `since`, `got` | history for the properties |

`Register` is `prepare` up to its await (with `_register_session`, which closes
a stale handler); the five `Connect...` actions are the ways through `open` and
`connect`; the nudge ends with both replies (`Subscribe`), with its timeout
(`NudgeTimesOut`), both of which replay the buffer and subscribe (`HandsOver`),
or finds its streams closed (`NudgeEndsClosed`, `DisconnectAgain`); `Leave` and `LeaveEarly` are `on_close` after and before the
websocket is open; `SendStatus` inside `KernelRestarted` and `KernelDied` is the
restart callback, with the flush it makes. The culling decision is
`Cull`: idle for long enough is always possible, and the count decides.

### RateLimit

`_limit_rate`. Times are relative: an entry carries the time it has left and
`Tick` takes one moment off each. `Receive(b)` is a counted message of `b` bytes
(0 for everything but stream output): purge, raise or lower the two flags, then
pass or drop. `recent` is history: what was sent in the last window.

### AtomicWriting, AtomicFile

Saving and reading one notebook. `file`, `tmp` and `invalid` are three paths,
each absent, torn, or whole with a content; `req` is the stage of each request;
`given` is what the last read that ended was given.
A save: `StartSave`, `CopyDone`, `Truncate` (these three hold the loop),
`ThreadWrote` or `ThreadFailed` (worker thread; what it wrote may be in the file
already or still in its buffers), `Flush`, `Finish`, or `Restore`.
A read opens the file; one that fails to parse takes the repair path `FoundCopy`,
`MoveAside`, `Resume`, `PutBack`, and then opens the file again (`Reopen`). Every
step has its failure (`EnterFails`, `RestoreFails`, `FlushFails` for flush, which
leaves the file torn, and for fsync, when the content is there, `FinishFails`,
`ReplaceFails`, `ReadMissing`), and `Crash` kills the server between any two.
Every open file remembers at which path its inode is now (`fd`), since a rename
does not disturb a writer or a reader, and a save whether another has the same
file open (`mixed`). Nothing in the server locks a path: `Overlap` says which
kinds of requests come while another is served, and is everything in the run about
safety. `overlapped` is history: a request came that may disturb one under way or
be disturbed, that is any but a read that finds all others reading a whole file.

`AtomicFile` is the promise: a content that only a committed save replaces, and
what a reader is given, which depends on where the content is. `settled`: at the
path, and readers are given it. `damaged`: a save was cut off; the content is in
the copy, a reader repairs this and is given it, unless the file ends inside a
character (`NotText`), which is an error each time. `missing`: a repair was
cut off between its two moves; nothing is at the path and nothing looks for the
copy, so readers get errors, and only a later save that fails brings the content
back. A save begun on a damaged notebook may lose the content, because
the copy is overwritten first. A save may be committed although its client is
told of an error (fsync, the removal of the copy, a kill). While requests that may
disturb each other are under way (`overlapped`) nothing is promised; what they
leave is the content from then on. The refinement takes the content from the file
if it is whole and no save is writing it, else from the copy.

### GatewayConnection

`GatewayWebSocketConnection`: one client, the dials it makes (numbered), the
future of each and the websocket as the gateway sees it. Done callbacks run in
a step of their own after the future is done (`Connected`, `NotConnected`),
in registration order: `_connection_done`, `_read_messages`, then one per
message that waited. `future` and `link` of a dial are separate since cancelling
the future of tornado does not stop the dial.

### ContentsTree, FileContents, AsyncContents

A path is the sequence of its names; an entry is absent, a directory, or a file
or notebook with its data; data is the sequence of the pieces written, so that
an upload shows its chunks. `FileContents` is the synchronous
`FileContentsManager`, `LargeFileManager` and checkpoints: each operation holds
the loop, so it is one step with every answer code and every change it may
make, failing operating system calls included. `AsyncContents` is what runs by
default: `AsyncLargeFileManager` and its bases, a step for each stretch between
worker-thread calls.

| Variable | Code |
|---|---|
| `tree`, `cps` | files below `root_dir`; `.ipynb_checkpoints` (or generic checkpoints) |
| `conf` | `allow_hidden`, `delete_to_trash`, `always_delete_dir`, the kind of checkpoints |
| `req` | for every request the call it waits for (`at`), the paths and data it keeps, the path its open file is at (`fd`, which a rename moves) |
| `answer` | the status and data of the last answer |

Nothing locks a path. A request has a claim, the paths it is about. `Overlap` is
the kinds of requests that come although a path of theirs is claimed, or one
above or below it; the history `met` has the requests that this has happened to.
With `Overlap = {}` `AsyncContents` implements `FileContents`: `Serializable`
reads the tree with the claims of unfinished requests as they were at their
start, and every answer is a step of `FileContents`. `LeavesNoOrphans` is for
any `Overlap`: a request that was not overlapped itself, and found a file with
every checkpoint it claimed, ends with that still so, or with an error because
a call of it failed. `CallFails` stands for a call that raises, `HookRefuses` for
a pre-save hook that does or a file that cannot be opened.

### GatewayKernels

`remote`, `born`, `gaps` are the gateway; `map` and `model` are `_kernels` and
what each manager last learned; `task` is an operation with the HTTP request it
has sent, how often it was sent again, and its locals (the list fetched, kernels
still to check, kernels found). A request is served and its answer comes later
or is lost (`Lose`), or the name of the gateway does not resolve (`Unresolved`,
which the code answers with 404 on purpose). `is_retryable` and `Retry` are
`RetryableHTTPClient`. `list_kernels` is `Listed` (refresh what the list has),
then `CheckNext` and `Checked` for each kernel that the list lacks; `cull`
goes through it first. The variables `doubted` and `misled` are history: what the
gateway never answered for.

### ConfigFiles

`file` is the content of each file: `Missing`, `Empty`, or a function on the
leaves of its JSON. A change is `Read`, `Open` (which truncates) and `Write`, of
one process each, and `Crash` may come in between. `recursive_update`,
`remove_defaults`, `merged` and `find_server_extensions` are the pure parts,
named as in the code. `promised` and `spoiled` are history: what the last
operation on a subject said, and which subjects were hit by overlap or a crash.
`Objects` is what JSON objects of some keys and values can be; the assumptions
say that the constants are such objects.

### ServerExtensions, ServerLifecycle, RunningServers

`ServerExtensions` has what the extension manager computes from the hooks that
raise. A process goes through `phase`: `linked` and `loaded` (initialize),
`writing` and `announced` (the info file), `running`, `stopped`, `exited`;
`calls` is the queue of loop callbacks (`bind`, `post_start`, `restore`, `stop`).
`Initialize` links, `Load` loads and finds a port, `StartLoop` enters the loop,
`Bind` listens. `Terminate`, `Interrupt`, `Answer`, `Inactive` and a request of
the command end in `Stop` or a cleanup: `Cleans` removes the files and starts
stopping extensions, `StopApp` is one stop hook, `CleanupKernels` and `CloseAll`
the rest, `Exit` stops the loop. Each call of `_cleanup` has its own slot, since
nothing keeps two apart. `RunningServers` adds `cli`, another process that lists
the directory, reads files, removes those of dead processes, and asks, waits
for, and then signals the server it wants to stop.

### KernelActivity

One kernel with the stream that watches it (`stream`, `onPorts`, `wire`), the
`state` and `age` that the culler looks at, its own work (`doing`), and restarts
of a client (`RestartKernel`, `Restarted`, `RestartSettles`) or of the restarter
(`AutoRestart`), on the same ports or others, with `captured` for
`_kernel_ports`. `record_activity` handles one message; `told` and `cut` are
history: whether the stream was there when the work began, and whether a
restart cut work short or dropped what was said of it.

### Identity

A browser has `Slots` requests under way; each carries the cookie (`jar`) of the
moment it was sent, is handled in one step, and its answer sets or clears the
cookie when it arrives. `get_user` and the operators it uses are named as in
`identity.py`. `key`, `cookie_secret`, `stored` and `hashed_password` are the
secret file and the password in the file and in the running server; `Stop` and
`Start` change them over.

## 3. Runs

| Run | Question | Distinct states |
|---|---|---|
| `Sessions.cfg` | do the handlers implement the sessions service, whatever overlaps? | 281,486 |
| `Connections.cfg` | do count, registry, buffer and streams stay consistent? | 608,352 up to symmetry |
| `ConnectionsDeliver.cfg` | does what waits for a client reach it? | 547,023 |
| `AtomicWrite.cfg` | what is kept and given of a notebook, and does every request end, whatever fails and overlaps? | 205,029 |
| `RateLimit.cfg` | is the data limit kept, and does output resume? | 13,478 |
| `Gateway.cfg` | are output, retries and departure right over losses? | 172,986 |
| `Contents.cfg` | is every operation on files as good as one step? | 119,814 up to symmetry |
| `GatewayKernels.cfg` | does the kernel map follow the gateway, with answers lost? | 1,660,456 up to symmetry |
| `Server.cfg` | do servers start, stop and get listed right, whatever breaks? | 671,735 |
| `Config.cfg` | is what was stored read back, whoever else writes? | 386,489 up to symmetry |
| `Activity.cfg` | is a working kernel spared, an idle one culled? | 1,179,224 |
| `Identity.cfg` | does a known browser stay logged in, as itself? | 6.8 million |

**Sessions.** Two requests at a time, two sessions, kernels and paths. Two
requests are what every known conflict here needs: one suspended, one that
intervenes. Kernel deaths, failing launches and server restarts happen at any
point besides. Answers tell the truth (`PostAnswersOpenSession`,
`SuccessMeansGone`), `SessionSurvives`, `ImplementsLifecycle`,
`EveryRequestAnswered`. Two kernels are too few for the
demonstrations that need a session's kernel, its replacement and another; those
have three.

**Connections.** Three websockets of two sessions: a session that reconnects and
another that intervenes. Two messages, to see an order. With `MaxRestarts = 1`, a
restart that may change the ports, the same configuration holds too, but takes
minutes (6,533,036 states up to symmetry); the theorems on these five invariants are for any number
of restarts, and `ConnectionsDeliver` has one. Some properties state what the code really does at
its edges, which is worth knowing: `count` runs low by `surplus`, the
disconnects that nobody had counted (a client that leaves before `connect`, or a
nudge that finds its streams closed and disconnects a second time), and by as
much the culler, which goes by `count`, may be wrong; `InOrder` and
`NoStreamLeaks` hold while the kernel keeps its ports, after a change streams to
the old ones can stay behind. The system may stop (no client, kernel gone), so
deadlock is not checked. Symmetry is over connections and session keys; no
property of this run is a liveness property. **ConnectionsDeliver** is
`WaitingArrives` on two connections without symmetry: what waits for a client, in
the buffer it took or queued in its stream, reaches it, unless its websocket is
closed first, however long the kernel is silent and also when it is gone.

**AtomicWrite.** Two contents, two slots, any overlap and two kills (one in a
save, and one in the repair of what it left): a read moves the file from under a
save, two readers repair at once, or two saves are in one file.
`SuccessMeansSaved` excepts a save whose file was moved away or shared; without
the exceptions it does not hold (`SaveOverlap.cfg`, section 5). `RequestsEnd`
excepts reads while saves keep coming, which may make them start over for ever.
The two
safety properties hold with three slots and one kill too (`Spec`, `SYMMETRY`:
667,123 states), and the theorems are for any number.

**RateLimit.** A window of three moments, five messages, six bytes, sizes 0, 1,
4, 7: a message below, near and above the byte limit. Since five and six are
above 1.25 the resume threshold (80%) can be reached: with smaller limits
`OutputResumes` does not hold, see the hazard at `channels.py:736`.

**Gateway.** Two losses and two retries, so that a retry count that is not reset
shows; three messages each way; nine dials, which `EnoughAttempts` says is never
the limit. The system may stop. `MessagesSettle` excepts clients that have left:
when a dial succeeds and its client leaves before the callbacks run,
`handle_incoming_message` reschedules each waiting message for ever.

**Contents.** A notebook in a directory, a second directory that is the name the
copy of the first gets, and a hidden name; two requests and one failing call or
hook: enough for a rename or delete of the directory between the steps of
another operation elsewhere, for a copy that finds its name taken, and for a
failure at any call; the directory may also be a file, which a copy below it
meets. Requests whose paths are related come one after the other
(`Overlap = {}`); `ContentsOverlap.cfg` and section 5 say what happens otherwise.
`Serializable`, `LeavesNoOrphans`. The last answer is left out of the state (`VIEW`): only the step
that gives it looks at it. The two settings are chosen to have each alternative
of trash and of the kind of checkpoint once. Every state has a request that may come,
or none because the bounds are used up, so deadlock is not checked.

`ContentsOverlap.cfg`, outside the regular runs (1,872,604 states up to symmetry),
is the same service where requests do overlap: a directory, a notebook in it and
one outside; saves, deletes and renames of any of them, two at a time, in any
order of their steps, and one failing call. `LeavesNoOrphans` holds there too: it
speaks of the requests that were not overlapped; what overlapping ones did before
stays on the disk, and so do the checkpoints they orphaned, which is why a
request must have found none. New files, uploads and copies are in `Contents.cfg`
and in the theorem, which is for all kinds.

**GatewayKernels.** Two kernels and two operations: a start, a shutdown or a
culling of the gateway during a list. One retry, one lost answer (so that the
retry can meet what the first attempt did), one gap in a list. `LiveKernelsManaged`
and `ListComplete` are what the second look at each missing kernel is for.

**Server.** Two servers that want the one port, one with a terminal and two
packages, one of them of two points of which the second is the app that was
started; one broken hook of three; two events (signals, requests, crashes,
commands): two are needed for two cleanups at once, or a SIGINT during the
question. Servers end, so deadlock is not checked. `StopEnds` needs the weak
fairness below.

**Config.** Two processes, so that one reads or crashes while another writes;
three operations, so that something stored, changed and deleted is read back;
one crash. Two keys, one with a default in the user's directory and the other
set for the whole site; an extension in both directories, and one that the main
file also switches.

**Activity.** One kernel, two requests and one on the control channel, two
restarts, one client. The culler's limit is one unit of time; messages take less.
`SparesWorking` and `IdleCulled`, safety and liveness of the same rule.

**Identity.** One browser with two requests under way: one whose answer comes
late and one that changes the cookie meanwhile. Two starts, for a secret of an
earlier one; one change of the password; every way to configure the token, and `allow_password_change`;
four names for anonymous users, one more than cookies and answers can hold.

**Fairness.**

| Module | Assumed | Because |
|---|---|---|
| SessionKernels | suspended handlers whose await is over go on; a launch succeeds or fails; a stopping kernel is removed | the loop runs ready tasks; jupyter_client bounds starting and kills a kernel that does not stop |
| KernelConnections | the nudge ends; the callback of a stream runs | `kernel_info_timeout`; the loop |
| AtomicWriting | saves and reads go on (saves: strong) | loop and worker threads; the loop serves ready callbacks in order; the disk is local |
| RateLimit | the clock goes on; the kernel goes on sending small messages | the counters are only looked at when a message comes |
| GatewayConnection | callbacks and timers run; a dial succeeds or fails | the loop; `GatewayClient.connect_timeout` |
| RunningServers | what a started server does by itself goes on | the loop; hooks return or raise; kernels start, fail or end (jupyter_client) |
| KernelActivity | received messages are handled, subscriptions take effect, time passes, the culler runs | the loop; ZMQ; `cull_interval` |

No client is ever assumed to act, except that the property of RateLimit is about
a kernel that goes on sending. Strong fairness is
assumed of the saves in AtomicWriting alone, whose callbacks compete for the
loop; the loop runs what is ready in the order it became so. AsyncContents,
GatewayKernels, ConfigFiles and Identity are checked for safety only.

**Mutants.** Every property of a run has a fault in the code's
definition that breaks it (a dropped guard, a reset left out, an order
swapped), and TLC finds the violation in the same instance: the bounds are large
enough for the faults the property is about.

## 4. Proofs

All are for arbitrary constants, from the named assumptions in the modules
(`None` is no id; bounds are naturals; the window is not 0). Some theorems are
about invariants that no run lists any more, since the proof covers them for
all instances: the types, `HandlersConsistent`, `OneReaper`, `OneLauncher`,
`CountsExact`, `MsgsWithinLimit`, `OneUpstream`, `WrittenInOrder`.
Every invariant that a proof adds was first checked by TLC on the instance of the
run of its module.

**SessionKernels_proofs.** `TypeOK` is inductive. `HandlersConsistent` is
inductive given it: rows name kernels that have been started, which needs that
what handlers remember across an await was started too. `OneReaper` and
`OneLauncher` each need both: a second shutdown is told apart from the first by
the stage of the kernel, and a launch by an id that nobody holds. Their
conjunction is the inductive invariant. `PostSound`, `SurvivalSound` and
`SuccessSound` (action properties) and `Refinement` (to `SessionLifecycle`)
follow step by step; the refinement needs `OneLauncher`, since an id reserved
for a session in one handler must be fresh when its row is inserted, after the
await.

**AtomicWriting_proofs.** All for any overlap, any failures and any number of
kills. `Typing`. `SuccessSound`, that is `SuccessMeansSaved`, from `Held`: one
request holds the loop, two saves that have the file at the path open both know of
it, and a save whose content is flushed alone to the file at the path finds it
there until it ends; that needs that no thread of another save is in that file, so
the file a save has open at the path exists (`StartNew` opens one only where
there is none). `Refinement` to `AtomicFile`, from `Agreement`: as long as no
request came that may disturb another (`~overlapped`), the disk is what the stage
of the only request says, or only readers of a whole file are under way
(`StagesAgree`; for instance, copied implies that copy and file are equal). Each
step of that request then maps to one of `AtomicFile` or to a stutter
(`SaveStep`, `ReadStep`); while requests disturb each other every step is
allowed (`DisturbedStep`), and the last of them that ends leaves what the
invariant asks for, whatever is on the disk.

**AsyncContents** (last part of `AtomicWriting_proofs`, by INSTANCE, for any
`Overlap` and any failures, under `ContentsAssumption`: a path is a sequence of
names, the variants of a name are names, and requests are about paths that may
exist). `CheckpointsHaveFiles` is `LeavesNoOrphans` for every tree and any number
of requests. While a delete or a rename is under way, its checkpoint has lost its
file; `Inv` says to whom it is `Due` (`Backed`), and what each stage of a copy,
delete and rename relies on (`WellStaged`; for instance, while a rename waits for
its move, its target has no checkpoint). Both are for the requests that are
`Good`, not overlapped so far and without orphans at their start; that a request
outside `met` is alone on its claim (`ClaimAlone`) and that it keeps to paths it
has claimed (`WellClaimed`, `WellNamed`) make its share of the invariant safe
from all the others, overlapped or not (`OthersSound`). `RequestStep` is the
lemma all steps go through: a step changes the disk only under its own claim,
and a request that ends leaves there what `LeavesNoOrphans` asks for. The lemmas
about `Within` and `Rebased` say what becomes of the paths below one that is
moved or copied.

**RateLimit_proofs.** `MsgsWithinLimit` is about what was sent recently, the code
counts what is in its queue. `Tracks` relates them: what is recent is the end of
the queue, what precedes it has expired, and the queue is sorted, so purging the
head removes nothing recent. `Weighs` is the same for bytes: they are counted,
and the bytes of what is recent are a part of those of the queue. The sums are
folds, which no induction of the library reaches here; the lemmas about them
(`TotalOne`, `TotalNext`, `TotalParts`) take the smallest set for which a
sum fails, which exists since strict inclusion of finite sets is well founded.
`Typing`, `Counting`, `RateBounded`, `DataBounded`.

**KernelActivity** (last part of `RateLimit_proofs`, by INSTANCE). `WorkKnown`:
while the server was told of the work of a kernel, its state is busy, or the
message that says so is on the wire and no later one there says otherwise.
`WorkIsKnown`, and from it `WorkingIsSpared`. The types it needs are its first
conjuncts; no bound needs an assumption.

**GatewayConnection_proofs.** `Links`: only the last dial can be up, and it is
down when the next is due; `SingleUpstream` follows. `Line`: what is written,
followed by what waits, is increasing; `ClientOrder`. `Flow`: what the gateway
sent is what the client got followed by what is left in the queue of the last
dial; `OutputOrder`. `Typing` needs `Links` (a dial is the next number).
`RetriesCounted`: all dials after the last success have failed, except the
newest, and no more than `retry` of them (`Dials`, `Tries`); the retry that
follows a loss has not failed yet.

**RunningServers_proofs.** The handler that stops a server at the next SIGINT is
installed only with a reason: the server is stopping, a thread is asking the
user, or the callback that restores the first handler waits in the queue of the
loop (`Asks`). A process that is reused must find the first handler (`Unused`).
With the types of the four variables (`SignalTypes`) this is inductive (`IInv`):
a callback that is added keeps what is in the queue, and the only callback whose
removal takes the way back is the one that restores. `Inductive`,
`InterruptSound`. Three more invariants are built on it, in this order:

- `TInv` (`TypesHold`): all types; the started points of a package are a prefix
  of its points, so that "in full" can be told by the last one; the callback
  that starts the packages is in the queue at most once and only before it ran.
- `FInv` (`FilesFollow`): the phase says which of the two info files are there;
  from the first cleanup on there are none; a command removes only files of a
  process that has ended. `ServersAreListed` follows.
- `CInv` (`CleanupsProgress`): each cleanup has stopped, or still has to stop,
  every app, unless a hook has failed it; one that is past the apps has no more
  to do; one that waits for its kernel may see it gone; one that is done has left
  no port. It needs `FInv`, which says that no file comes back. `StopsAreClean` is
  what both say of the cleanup that stops the loop.
- `XInv` (`PackagesProgress`): what each phase has done for each package, unless
  a hook of that package has raised. `SoundPackagesStart`.

**GatewayKernels_proofs.** `IInv` says of each operation what its locals are
worth (`TaskSound`): a request under way is about a kernel that was known; an
answer that the kernel is not there is true from then on, since a kernel that is
gone does not come back under its id; what a list still owes to its client is found, still to
be checked, or doubted. With what the map says (`MapSound`: who is missing from
it is gone, doubted or misled) and what the last answer says it is inductive.
`StartsAreSingle` needs of it that a start is never sent a second time, as
neither its method nor its status may be retried; `KernelsAreManaged`,
`ListsAreComplete` and `ShutdownsStopKernels` follow.

**KernelConnections_proofs.** `TInv` is inductive by itself; each invariant after
it is so given those before.

- `CountExact` itself: every step that opens or closes a websocket moves the
  count or the surplus by one. `CountIsExact`.
- `Owned` (`StreamsOwned`): who names which stream, that no two open connections
  name the same open one and that the buffer shares its stream with none. Then
  `LInv` for `StreamsAreHeld`: no ports are captured while the kernel has not
  moved.
- `Registered`: an open connection that was not told to close is the one its key
  is registered for. `SessionsHaveOneSocket`.
- `SInv`: connections that never began have received nothing; a connection, the
  buffer it took and the stream it reads are of one session; what waits in any of
  them was published since that session first connected.
  `NothingForeignIsReplayed`.
- `OInv`: what a client got, what waits in its buffer and what is queued in its
  stream are, in this order, increasing. It needs to know which callback a stream
  has at each stage of its connection (`Vacant`, `Fed`, `Served`, `Waiting`).
  `ClientsSeeOrder`.

**ConfigFiles_proofs.** The pure part first: putting the defaults under an object
gives the same whether or not they were removed from it before
(`RemovedDefaultsReturn`, for objects of any keys, since a default is never null);
updates and removals keep names and values. `Types`: each file holds content of
its kind whatever overlaps, what ships is never written, and each operation works
on the file of its subject. `KInv`, for each subject that no overlap or crash has
spoiled (`Clean`): one operation at most is about it (`Lone`); the files show what
was promised (`Kept`) unless that operation has truncated its file; and if it has
read, what it is going to write is what it will promise (`Prepared`). Subjects
have different files, so a step about another one changes nothing of it.
`SettingsAreKept`, `SwitchesAreKept`, `AnswersAreKept`. The assumptions beyond
types: no default is null (`recursive_update` drops it when the defaults are
collected), and the labels of files are no names of extensions.

**Identity** (last part of `ConfigFiles_proofs`, by INSTANCE, under
`IdentityAssumption`: there is a name for a user, and `None` is neither a user nor a
cookie). `CookiesSound`: types of
cookies, secret and passwords, and of each answer under way what it may do to the
cookie of its browser by what its request carried. `AnswersAreSound`;
`BrowsersStayLoggedIn` and `UsersAreKept` follow from the step that receives an
answer.

The proofs corrected the models in two places. The tests of `get_user` were
alternatives of a CASE although a request may meet several; they are in the
order of the code now. A copy of a directory made a directory of a file above its
target and took a checkpoint of the source's own name along; `copytree` fails on
the first (`Blocked`), and copies nothing that is beside the source.

Only model-checked: liveness under fairness (out of the prover's reach), and
`Serializable` of the contents modules (section 7).

## 5. Statements of the repository that the code does not keep

Each was met while modelling. The configurations named here are not part of the
project's runs: each checks one such statement, and `tlc` finds the
counterexample. Where none is named, add the property to that module's run.

| Configuration | Module, property | The code | The statement |
|---|---|---|---|
| `SessionPerPath.cfg` | `MCSessionKernels`, `PostReusesSession` | two overlapping POSTs for one path create two sessions and kernels | `services/api/api.yaml:426`, `sessions/handlers.py:49` |
| `SessionDelete.cfg` | `MCSessionKernels`, `DeleteTakesTheKernel` | DELETE answers 204 while a PATCH gave the session another kernel, which runs on without a session | `api.yaml:410` |
| `KernelGauge.cfg` | `MCSessionKernels`, `GaugeCountsKernels` | a kernel that dies stays in the gauge; overlapping shutdowns take it off twice | `prometheus/metrics.py:50` |
| `ReconnectLoss.cfg` | `MCKernelConnections`, `NothingMissed` | on reconnection the nudge swallows the first buffered iopub message it receives | `kernelmanager.py:131-132` |
| `SaveOverlap.cfg` | `MCAtomicWriting`, `SuccessMeansSavedAlways` | a read during a save moves the half-written file away; the save reports success | `fileio.py:108` |
| `GatewayLeak.cfg` | `MCGatewayConnection`, `NothingLeftOpen` | a dial that succeeds after the client left stays open | `gateway/connections.py:84` |
| `RenameOverlap.cfg` | `MCAsyncContents`, `RenameNeverReplaces` | a file saved under the target while the rename waits for its thread is replaced | tests expect 409 for a target that exists |
| `StopHangs.cfg` | `MCRunningServers`, `StopAlwaysEnds` | a stop hook that raises leaves the cleanup, and the loop goes on | docstring of `_stop` |
| (Config) | `MCConfigFiles`, `AnswerAlwaysHolds` | a PATCH that deletes a setting with a default answers without it, and reads back with it | docstring of `update` |
| (Activity) | `MCKernelActivity`, `IdleAlwaysCulled` | `execution_state` of a restarted kernel is set on the manager (`kernelmanager.py:496`); if its idle status is lost it stays busy for the culler | help of `cull_idle_timeout` |
| (GatewayKernels) | `MCGatewayKernels`, `OnlyCulledDropped` | a kernel about which the gateway does not answer is dropped | comment in `list_kernels` |

Seen besides, none of it against a statement of the repository:

- `avatar_url` may be updatable, but `user_to_cookie` (`identity.py:342`) leaves
  it out, so that it is lost at the next request.
- A client that comes back to a kernel that was removed meanwhile takes the buffer
  out before the connection is refused: its streams are forgotten while they are
  open (`ConnectGone`; `NoStreamLeaks` is about kernels that are there).
- The nudge of a client that has left still ends by subscribing, also to a stream
  that the next client of the session has taken over: messages may then go to
  the one that is no longer there (`Undisturbed` in `WaitingArrives`).
- After a second disconnect of one connection the buffer may hold streams that
  are closed. `stop_buffering` takes it out and then raises
  (`kernelmanager.py:419`), so that the next connection of another session, or the
  shutdown, fails once (`Unclosable`).

## 6. What is not modelled

Inside the modelled components:

- `use_pending_kernels = True`; `buffer_offline_messages = False`;
  `cull_connected` and `cull_busy` other than by default; messages from client to kernel over ZMQ,
  subprotocols and the wire formats.
- The connection to a busy kernel whose buffer has no streams, or closed ones:
  `nudge` returns early, and the websocket stays open without a stream.
  `ConnectBroken` is the other case, where it is aborted.
- A power failure (what the page cache loses: a kill of the process keeps what
  was written); `_simple_writing`, directories the server cannot write to,
  symbolic links.
- Contents: a rename whose target has become a directory when the thread gets to
  it, which `shutil.move` takes for the directory to move into (`Move`); trust and
  signatures of notebooks, validation of models, formats, hashes and sizes, the
  preferred directory, extra roots.
- Gateway: kernel specs, the blocking client with its channel queues
  (`GatewayKernelClient`, which the server itself never uses), the
  settings sent along; the length of the pauses between retries; the closing
  handshake of a websocket.
- Server: sockets other than TCP, TLS, the web application's settings, loading
  of traits, migration of old files; what an `ExtensionApp` merges into the settings.
- Configuration: a key that is a scalar in one file or change and an object in
  another (a file is a function on the paths of its leaves): there a scalar
  replaces the object, and `recursive_update` and `remove_defaults` raise when an
  object meets a scalar. The sorted order
  of several files of one `.d` directory that have the same key (the extensions'
  files have keys of their own, the frontend section has one file).
- Identity: the legacy login handlers, cross-origin and host checks, expiry of
  cookies, two servers that share one runtime directory.

Whole components, in `PROJECT.json` with status `not_modelled` and the reason:
the HTTP handlers and the authorizer decide on one request without shared
state; the keep-alive is one timer of one websocket; nbconvert, terminals and
the distribution of events are external packages; metrics, logging and
utilities format.

## 7. Plan

One proof remains: `Serializable`, the refinement of `FileContents`, action by
action. `Inv` gives it the claims; what it still needs is, for each stage, what
the disk holds under the claim compared with what it held when the claim was made.
