# CopySync: a TLA+ model of the relay server and its desktop client

CopySync shares a clipboard between devices. A Go server (`src/server`) keeps a
WebSocket per device, relays every copied item (a *clip*) to the other devices of
the sender's pool, queues clips for devices that are offline, and stores large
payloads as content-addressed *blobs* behind plain HTTPS. Desktop clients (Rust)
and an Android client (Kotlin) capture the clipboard, send clips and apply the
ones they receive.

This directory models the server's core (the relay of clips, the rotation of
device tokens, the blob channel) and the desktop client: its sync engine, the agent
that hosts and supervises the engine, the agent's configuration and telemetry, and
the GUI process that talks to the agent. Each module is translated from the source;
`PROJECT.json` maps every definition to the lines it stands for.

## 1. Inventory

| Component | State it keeps | Operations | Talks to |
|---|---|---|---|
| Hub (`internal/hub`) | registry `clients`, `blobACL`, `onDemand`, settings cache | Register, Unregister, Evict, Route, SetPool, RequestBlob, AuthorizedForBlob, Snapshot | one `Run` goroutine takes requests from channels; pushes frames into each client's `Send`; reads and writes the store |
| Transport (`internal/transport/ws.go`) | per connection: `Send` buffer (64), `done`, deadlines | serve (hello, validate, Register, rotation, readPump), writePump, idleWatchdog | calls the hub and blocks on its reply channels |
| Offline queue (`store/queue.go`) | a bucket per device, keyed by time and sequence | Enqueue (trims to the depth), DrainQueue, PurgeExpiredQueueItems, AllQueuedBlobIDs | hub, housekeeping, garbage collection |
| Device store, tokens (`store/devices.go`, `tokens.go`) | device records, name index, token records, hash index | PutDevice, DeleteDevice, RotateToken, ReissuePendingToken, RetireOldToken | transport (through `main.go`), admin API, blob channel |
| Blob channel (`httpapi/blob.go`, `blob/`, `store/blobs.go`) | files, records with persisted ACL, waiting downloads | PUT, GET with on-demand pull, RunGC | hub for authorization and blob_request; store |
| Pairing (`store/pairing.go`) | one-time codes | create, claim, purge | admin API, device store |
| Settings, admin API, sessions | settings record, admin account, sessions, rate limits | get/save settings, login, delete device, broadcast | hub (RefreshSettings, Evict, Route) |
| Desktop engine (`clients/desktop/core`) | echo guards, last text, on-demand ring, token, history | capture, send, receive, reconnect with backoff, supply blobs | WebSocket, blob channel, clipboard |
| Android client | the same, in Kotlin services | the same | the same |
| Desktop agent (`clients/desktop/agent`), Tauri shell (`src-tauri`) | stored supervisor handle, published command channel, engine tasks and clipboard threads, Status | boot, Pair, start, supervise and relaunch, Shutdown, Set requests | hosts the engine; serves JSON lines on a local socket, each request on a thread |
| Configuration and telemetry (`core/src/config.rs`, `pairing.rs`, `telemetry.rs`, agent) | `config.json`, the settings atomics, a bounded line buffer | load, save, claim, tlog, drain, upload, re-buffer | written by setters, pairings and the engine; the uploader reads the file |
| Desktop GUI (`clients/desktop/gui`), IPC types (`ipc`) | mirror of status and roster, window, tray, hotkey, workers | launch with renderer fallback, event thread, frames, toggles, pairing, search, close, quit | spawns the agent, subscribes to its events, sends requests |
| Web UI, copyctl, TLS, mDNS | user interface and plumbing | – | – |

**What is hard here.** The hub is single-threaded, but the work around it is
not: Register drains the offline queue *outside* the hub; set_pool reads and
writes a device record in two transactions; token rotation is decided, offered and
committed in three separate steps of each connection; an upload, a download and a
garbage collection each touch file and record in separate steps. In the desktop
engine a thread polls the clipboard format by format while the user, the actor and
auto-clear timers write it, and results of workers arrive on a later connection
than the one that started them. Around it, a supervisor task is aborted and replaced
from request threads while it may be running, three parties rewrite one configuration
file, and the GUI mirrors a state that reaches it through a lossy bus, a socket and
its own requests. A connection can
be replaced, evicted or deleted at any of these points, its late Unregister still
has to be harmless, and the process can die between any two of them. `PROJECT.json`
lists these places under `hazards`, each at its line.

**What makes the components correct.**

* Hub and transport: the registry names the one live connection of a device; a
  clip is on its way to a device at most as often as its targets name it, and
  disappears only for a reason the code names; replayed clips come before live ones; no goroutine waits
  for ever, dead connections leave.
* Tokens: the client always holds, and finds in its file, a token the server accepts; the hash index
  equals the accepted tokens; a retired token never works again.
* Blobs: a download that waits is woken by the upload; it ends; a recipient is not
  refused bytes because the hub forgot it; collection respects the offline queues.
* Desktop engine: one copy gives at most one clip, new content is not overlooked, a
  received clip is not sent back; an upload that succeeded is advertised exactly
  once whatever happens to the connection; a file offered on demand stays available
  while the ring has room.
* Agent: one engine at a time; an aborted engine and its clipboard thread end; a panic
  is followed by a relaunch; Status does not keep claiming a connection.
* Configuration and telemetry: the file and the settings in force agree; log lines
  leave in order and are lost only to a full buffer.
* GUI: what it shows converges to the agent's state; a
  dead agent comes back, except after a quit; every pairing and search ends.
* Pairing, settings of the server (planned): a code is used once; the newest saved settings are
  in force.

## 2. Modules

| Module | Models |
|---|---|
| `Relay` | hub registry and routing, WebSocket connections, offline queue, device deletion |
| `RelayProofs`, `DeliveryProofs` | its theorems: types and registry; what is delivered, in which order, and what is lost |
| `TokenRotation` | token record, hash index, rotation steps of each connection, the client's token |
| `TokenProofs` | its theorems |
| `BlobChannel` | uploads, downloads, on-demand pull, ACLs and holders, garbage collection |
| `BlobProofs` | its theorems |
| `Engine` | the desktop client: clipboard watcher, actor with its reconnect loop, echo guards, blob workers |
| `EngineProofs` | its theorems |
| `Agent` | boot, pairing, start, restart supervisor and shutdown, in the agent and in the Tauri shell |
| `AgentProofs` | its theorems |
| `AgentConfig` | the configuration file with its three writers, and the settings in force |
| `Outbox` | abstract specification: a bounded outbox of log lines |
| `Telemetry` | composes `AgentConfig` with the telemetry buffer and uploader; implements `Outbox` |
| `TelemetryProofs` | theorems about `AgentConfig` and `Telemetry`, the refinement among them |
| `Gui` | the GUI process, its event thread and workers, the agent's event bus and life |
| `GuiProofs` | its theorems |
| `MCRelay`, `MCToken`, `MCBlob` | symmetry sets for TLC; the `.cfg` files give the instances |
| `MCAgent`, `MCTelemetry`, `MCGui` | roots of the agent's, the telemetry's and the GUI's instances |
| `MCEngine` | the clipboard contents, commands and clips that its two instances use |

Every bbolt transaction, every handler of the hub's Run loop between two points at
which another goroutine can interfere, and every file operation is one step.
Operators named `X_Something` next to `X` are *mutants*: the mistakes that the
properties are shown to notice. They are not part of any specification.

### Relay

`phase[c]` is where the serve goroutine of connection `c` is: `fresh` (not dialled),
`validated` (hello accepted), `drained` (DrainQueue done), `registering` (the hub is
in handleRegister for it), `requeue` (re-persisting the tail that did not fit),
`reading`, `busy` (blocked on the hub in Route or SetPool), `acking`, `leaving`
(readPump ended), `closed`. `hub` is the request the Run loop is in the middle of,
with the targets still to serve, so that writePump and every other goroutine can
act between two targets. `send`, `done` and `link` are the client's buffer, its
closed `done` channel and the state of the socket; `half` is a peer that is gone
without the server knowing, which idleWatchdog turns into a read error.

Clips are numbers in the order in which the hub accepts them, so order and loss
can be stated. Frames that carry no clip (hello_ok, presence, ack) are all `Ctl`:
they matter for the slot they use. Broadcasts of presence are one step because the
non-blocking pushes to different buffers commute. A target list counts how often it
names each device (`Tasks`), as resolveTargets keeps repeated ids and handleRoute's loop delivers
once for each: a copy of a clip is the clip with the number of the mention, and
`AtMostOnce` says that no copy is doubled. `MaxNamed` bounds the mentions.

### TokenRotation

One device, its token record (`cur`, `prev`), the hash index and any number of its
connections. A connection goes through hello, `MaybeRetire` / `MaybeRotate` (one
read of the record), the retirement or `Offer` (the frame is queued for writePump),
and the commit (`RotateToken` or `ReissuePendingToken`), interleaved with those of
other connections. The client takes the token when the frame arrives and saves it;
the save may fail, the client may restart from its file (`ClientRestart`; a relaunch of the
engine inside the agent uses the token of its start instead, which is `AgentConfig`'s
`Relaunch`). `Overlap` says whether the
client may dial while the server still serves an older connection of it, which
happens when the link broke and the server has not noticed.

### BlobChannel

The relay is reduced to what blobs see of it: who is registered, which devices
still have a running readPump (a superset: an evicted or replaced connection can
still deliver a clip it has read), which queued or received clips refer to a blob.
A download goes through authorization by the hub, the persisted ACL, Open, and
pullOnDemand's add, request, second Open and wait; an upload through authorization,
Has, copy and rename, TouchBlob and signal; RunGC through its two snapshots, then
file and record of each victim. `LastAccess` is `zero`, `old` or `recent`; usage
is counted in files. All devices are in one pool. An on-demand clip is routed
without an upload, an eager one only after the device was told that its upload is
stored. `Reroute` says whether one blob may be referenced by several clips and
`Collect` whether housekeeping runs. `withdrawn` is a history variable: the recipients
whose grant RunGC deleted, a later clip overwrote, or a competing origin kept from being
recorded. A registration is one step with the drain before it, and the tail that does not fit
the buffer is not put back: its blobs would count as queued later (`late`).

### Engine

`clip` is the content of the OS clipboard by format, `changed` says that its
sequence number differs from the watcher's `last_seq`. The auto-clear timer of a
text compares (`ClearCheck`) and clears (`ClearClipboard`) in two steps. The
watcher's `poll_once` is two steps as well: `PollBegin` reads image and file list,
`PollEnd` reads the text and dispatches, so that a copy can fall between them;
`last` is its `ClipState`. Commands reach the actor through `cmds`.

The actor's `phase` is `dial`, `flush` (re-advertising `pending` uploads), `up` (its
select loop) or `backoff`. While the files of one copy (`batch`) are sent, no arm of
the select is taken. A frame handed to the socket is delivered when `link` is `up`,
accepted and lost when it is `half`, an error when it is `down`. `ring` holds the
echo guards with a flag that `ExpireEcho` clears when the 3 s of an entry have
passed, which may be at any time: in a backoff, behind a batch of files, or with the echo
still in the clipboard. `lapsed` is a history variable: the values whose entry expired, or
was pushed out of a full ring, while their echo was on its way to the check (`RoundTrip`). `held`
and `order` are the on-demand ring, `uploading`, `serving` and `pulling` the
workers, and `results` their channel, which survives the connection. With
`E2E` every sealed blob has an id of its own, without it the id is that of the
file's bytes, that is, of the version on `disk`. `windows` never changes: it lets
one run cover the platform with a sequence number and the one without.

The privacy filter is a set of texts (`Sensitive`), size limits and unreadable values
another (`Refused`). Peers are the clips they send; a clip that cannot be
decrypted is ignored by the code and is left out.

### Agent

`req[p]` is where a request thread is in Pair or Shutdown; `"main"` is the boot
sequence, which starts a saved pairing before the socket is bound. `start` is two
steps, as it takes the slot's lock twice: `StartTake` takes the stored supervisor out,
aborts it and spawns the new one, `StartStore` stores the new handle. A supervisor
(`sup[s]`) is `parked` (spawned, or in its backoff), `polled`, `published` (channel
and watcher thread exist), in its `await` of the engine, `done` or `gone`. Abort takes effect at an
await: a poll that has begun goes on to the next one, so an aborted supervisor may
still publish a channel and spawn an engine, which AbortOnDrop (`AbortInner`) then aborts. `eng[l]` is the engine
task of launch `l` and `watch` the launches whose clipboard thread runs. Engines panic up to
`MaxPanics` times; a pin that does not decode makes them return at once. `host`
never changes: one run covers the agent and the Tauri shell, which has the same
supervisor but no Shutdown request. `Pairers` are the clients that may pair: the GUI has at most
one pairing at a time, and the run has one pairing client.

### AgentConfig, Telemetry and Outbox

A configuration is its token and its settings. Every connection to the agent has a task
of its own, so requests (`req[c]`) run beside each other and beside the engines.
`Config::save` is two steps (truncation, write) for requests and engines alike; a truncated
file does not load, and neither may one that two overlapping saves have written (`Mixed`).
Either step may fail: a setter replies Ok all the same, a pairing with the error, an engine
ignores it. A setter stores the atomic, then loads, then saves. The engine keeps the
configuration it was started with (`eng[i].cfg`) and saves it when a token is rotated;
after a panic its supervisor runs it with the token of its start (`Relaunch`). A rotation of
an aborted engine finishes its save: there is no await in it. `spoiled` is a history variable:
since the agent started a save failed, two writers overlapped, an engine saved a copy older than
the settings in force, or one was relaunched with an old token. `SettingsKept` is about
the other behaviours; in these the code does let file and memory differ (section 3).

`Telemetry` gives the steps of `AgentConfig` that log a line their call of `tlog`, and
adds the uploader (`Drain`, `Uploaded`, `UploadFails`), which reads the file before
each batch. A failed upload may have reached the server. Lines are numbered in the
order of `tlog`. `Outbox` is what this promises: a queue from which the oldest lines
are delivered, lines are given up only when `Cap` or more wait, and an upload
may be repeated. `ImplementsOutbox` is the refinement, with the batch under way followed by
the buffer as the abstract queue.

### Gui

`gui` goes from `start` over the two renderers (`glow`, `wgpu`) to `run`, `quit`, `gone`. `mirror`
is what is shown, `real` what the agent holds, each a status (connection and one
setting) and a roster. An emitted event goes to the connection task's part of the bus (`sub`, which
drops its oldest event and marks the lag), is copied to `pipe` (socket and channel), and
folded into the mirror by a frame (`Update`), which reads any prefix of what is
there, of which the newest status and the newest roster stay. A frame is one step up to where it draws; what the user clicks in it comes after that step.
The frame that hides the window still draws (`shell.drawing`), so a control, the hotkey's
among them, can be used in it. `ev` is the event thread; `over` is its sleep of one second when the process
exits within 300 ms. `agent` is `down`, `starting`, `up` or `exiting`; a crash breaks the stream
and fails the requests. `pub` is a history variable: whether the stream has carried
status and roster since the mirror took them from elsewhere (a control, a Pair
reply, a new subscription). A roster that a frame pulls counts only when no older
roster is still on its way, which would be shown after it (`RosterPulled`). The agent
reads its settings atomics and sends the event in one step (`Emit`); in the code a setter can
fall between the two, so that an event carries a setting older than its place in the stream, which the
next status corrects.

## 3. Runs

Passing runs (TLC explores the whole state space of the instance):

| Run | Instance | Checks |
|---|---|---|
| `relay` | 1 device, 3 connections, buffer 2, queue 2, 3 clips | `ReplayFirst`, `NoSilentLoss`: replacement, replay and re-persisted tails |
| `relay_pools` | 2 devices, 2 pools, 2 connections, 1 clip with up to 2 mentions of a device, 1 fault | `RegistryInv`, `AtMostOnce` across devices, repeated targets, pool changes and deletions |
| `relay_live` | 2 connections, 2 clips, 1 fault (crash, deletion, purge), fairness | `TypeOK`, `HandlerInv`; dead connections leave (`DeadConnsLeave`), a registration ends (`RegisterCompletes`) |
| `token` | 5 successive connections, 5 tokens, 2 faults (crash, failed save) | `NeverLockedOut` up to the first fault, `RestartSafe` with them |
| `token_overlap` | 3 overlapping connections, 4 tokens, 1 fault | `TypeOK`, `IndexExact`, `NoRevival` |
| `blob_fetch` | 2 devices, 1 blob, 2 routes, 1 download, 1 upload, 1 fault, fairness, no collection | `TypeOK`, `NoLostWakeup`, `RecipientServed`, `GetsFinish` |
| `blob_gc` | 2 devices, 2 blobs, cap 1, 1 route, 2 uploads, no download | `OldPinsKept`: a pass keeps the bytes of clips that were queued when it began |
| `engine_clip` | 3 clipboard contents with a sensitive text and a refused file, 2 copies, 1 received clip, 1 fault, rings of 1, both platforms | `OneClipPerCopy`, `NoEcho` |
| `engine_blob` | an image, a list of a large and a small file, a large file sent by command; 1 hold, 1 edit, 2 faults, E2E, fairness | `TypeOK`, `UploadOnce`, `HoldsAgree`, `HoldKept`, `UploadsAdvertised` |
| `agent` | both hosts, 2 clients of which one pairs, 2 starts, 1 panic, fairness | `TypeOK`, `OneEngine`; aborted engines and watchers end (`OrphansGone`), a panicked engine is relaunched (`PanicRecovers`), a connected flag without an engine is cleared or made true (`StatusTruthful`) |
| `telemetry` | 2 clients, 2 settings, 2 starts, 2 tokens, 4 lines, buffer 2, batch 2 | `TypeOK`, `SettingsKept`, `NothingLost`, and the refinement `ImplementsOutbox` |
| `gui` | bus 1, pipe 3, 2 rosters, 2 user actions, 2 engine events or faults, fairness | `MirrorConverges`; `AgentBack`, `WorkEnds`, `QuitIsFinal` |

*Bounds.* Three connections let a third one register while the first two are being
replaced and torn down, which is the longest chain the registry distinguishes. A
buffer of two holds hello_ok and one more frame, so a replay of two clips overflows
it and a tail is re-persisted; a queue of two is overflowed by the third clip. Two
mentions of a device split over buffer and queue, or fill the buffer and evict the connection between them.
Five tokens and connections cover two complete rotations with a re-issue in
between; two faults are a failed save and another, or a crash after it. Two routes of one blob are a clip and
one that overwrites its recipients. One blob is enough for the waiting and access questions because blobs do
not interact except through the cap, which `blob_gc` covers with two blobs and room
for one. Two copies make the second one meet every state that the first left behind
(unchanged image beside a new text, text beside a refused file), and one received
clip can fall before, between and after them. Echo rings of one entry are overrun by the next
value. Two clients are two setters, or a setter and a pairing, in every order of their steps; two tokens are a
pairing and a rotation, or two pairings. With a ring of one hold the second
large file evicts the first while it is being served; two faults are a broken link
and a failed transfer or dial after it. Two starts are a boot and a re-pair, or two pairings, so every
state of the first supervisor meets its replacement; one panic lets the replacement fall
into the backoff, the relaunch and the await after it; a crash or Shutdown may follow
and the next life begins with fresh counters. A bus of one event lags at the second,
a pipe of two is what the resync after a lag needs, and a third place lets an old
roster be on its way when the first frame pulls one. Two actions are, for example, a control and a close,
a close and the tray's quit, or a pairing and a quit; two events are a lag, or an event and a crash. Deadlock is not checked: connections,
downloads, clips and copies are used once and the counters are bounded, so every
behaviour ends.

*Disagreements between the code and its documents or comments.* Seven configurations are
kept that TLC refutes; `tlc -config <file> <module>` prints the behaviour:

| Configuration | Module, statement | What the source says | What happens |
|---|---|---|---|
| `MCRelayDelete.cfg` | `MCRelay`, `DeletedDeviceCutOff` | `hub.go:288-292`: Evict is called "so an already-open session is cut off immediately" | a device deleted between ValidateToken and handleRegister keeps its session |
| `MCTokenLockout.cfg` | `MCToken`, `NeverLockedOut` | `copysyncd/main.go:120-122`: "a dropped token_rotate frame can never wedge the device"; `tokens.go:42-43`: the previous token is kept valid "until the device authenticates with the new one" | two overlapping connections hand out two tokens, one commit counts, and the client holds the other |
| `MCBlobHeal.cfg` | `MCBlob`, `NeverRefused` | `httpapi/blob.go:184-185`: the persisted ACL "survives the origin going offline" | RunGC's self-heal deletes the ACL of an on-demand blob nobody has pulled yet |
| `MCEngineEcho.cfg` | `MCEngine`, `NeverSentBack` | `docs/PROTOCOL.md:106`: a client must "not re-broadcast a local change equal to one it just received" | the entry of a received clip expires after 3 s while the watcher's command waits out a backoff of 2 to 30 s, or is pushed out of its ring, and the clip goes back |
| `MCTelemetryOptOut.cfg` | `MCTelemetry`, `OptOutHonoured` | `agent/src/main.rs:152-154`: the uploader "honors the `telemetry` opt-out" | the save of a rotated token writes back the settings of the engine's start, and uploads resume |
| `MCGuiFresh.cfg` | `MCGui`, `MirrorFresh` | `gui/src/main.rs:1396-1398`: adopting a Status "can't race a user edit back to a stale value" | a Status already on its way undoes a control in the mirror |
| `MCGuiHidden.cfg` | `MCGui`, `WayBack` | `gui/src/main.rs:1599-1601`: "hiding with no affordance would leave an invisible process" | the frame that hides the window goes on to draw its controls; a re-bind there that fails takes the hotkey away, the only way back |

*Other disagreements met while modelling*, which the modules reproduce with other
constants or one more property, but for which no run is kept:

* a clip routed between DrainQueue and handleRegister stays in the queue of a device
  that is online, and newer clips overtake it (`docs/PROTOCOL.md:53-54`); for the same
  reason a re-persisted tail is stored behind a newer clip;
* set_pool reads and writes a device record in two transactions and can write a
  deleted one back;
* a target list that names a device twice gives it the clip twice (`hub.go:594-617`);
* `NeverLockedOut` without its condition on faults: the server dies after the token_rotate
  frame was written and before the commit. `RestartSafe` without its second reason: a client
  whose save failed presents the new token on its next connection, the server retires the
  token that the file still holds, and a restart is locked out;
* `NeverRefused` with `Reroute = TRUE`, two routes and three devices: the same bytes
  sent again to others overwrite the first recipients;
* a clip queued after RunGC read its pins can lose its blob in that pass, which is
  why `OldPinsKept` exempts the blobs in `late`;
* the disconnection of a stale on-demand holder deletes the ACL of a blob whose
  origin is connected;
* `HoldKept` with `E2E = FALSE`: a file edited between offer and request is uploaded
  under another id and the hold is dropped;
* the auto-clear timer compares and clears in two steps, so a copy made in between is
  cleared, although the comment at `engine.rs:320-321` excludes it;
* a text whose send failed is lost (uploads are stashed, texts are not), and copying it
  again sends nothing while the watcher's `last_text` still equals it;
* `OneEngine` with two clients in `Pairers`: both find the slot empty, and two engines run
  until the process ends (`agent/src/main.rs:448-450`, "so we never run two engines at once"). The
  GUI has one pairing at a time; the agent's `pair` command (1081) is a second client;
* the relaunch after a panic uses the configuration of the first start, whose token two
  rotations have retired (`agent/src/main.rs:414-416`, "sync recovers on its own");
* a supervisor aborted during a poll may publish its channel after its successor;
  commands then go to a dead engine (in `Agent`, `cmdTx` names a launch that ended);
* a crash between the two steps of `Config::save`, or a write that fails, loses the pairing;
* `SettingsKept` without `~spoiled`: a setter that runs between Pair's save
  (`agent/src/main.rs:737`) and the seeding of the atomics in start (429-438) is in the file and not in
  force; two overlapping setters lose one update; a setter whose save failed replies Ok (666);
* a Pair reply polled after a newer Status event shows the older state; a new
  subscription pushes a status but no roster, so a restarted agent's empty list is not
  shown (`gui/src/main.rs:1573-1574`, "the event thread will keep them fresh"). Both refute `MirrorFresh`;
* when a new hotkey cannot be registered the old one is already gone
  (`gui/src/main.rs:1145`, "On failure the previous binding stays active");
* an agent that is still starting is not asked to shut down, and an event thread that
  wakes from an earlier sleep in the last 300 ms can spawn one (`ipc/src/lib.rs:130`,
  "so nothing lingers"): `QuitIsFinal` is about a thread that is streaming;
* `supervisor_backoff` is documented to begin with 1 s (`agent/src/main.rs:562`) and
  begins with 2 s, as its first attempt is number 1.

*Fairness.* Liveness is stated under `FairSpec` only. Goroutines run, so the hub's
steps and writePump have weak fairness. The steps of a serve goroutine or of a
download that wait for the hub are disabled while it handles something else; they
have strong fairness, because the hub's `select` chooses at random among the ready
channels and each handler terminates, so a request that is ready again and again is
taken. That the long poll's timer fires is part of this. In `Engine` the actor's
task is scheduled (weak fairness of its connection steps and of its loop), and dials
fail only finitely often: `MaxFaults` bounds the outage, not the code. In `Agent` the
runtime polls ready tasks, request threads finish, an engine without a connection
keeps dialling; in `Gui` both processes' threads run, frames are drawn (each frame asks for the
next), and the agent binds its socket and answers. Nothing is
assumed of users, clients, admins, housekeeping, workers or the network.

## 4. Proofs

TLAPS checks these for every value of the constants that satisfies the assumptions of
the modules: `RelayConstants`, `TokenConstants`, `BlobConstants`, `EngineConstants`,
`AgentAssumption`, `ConfigAssumption`, `TelemetryAssumption`, `GuiAssumption`. They ask for
sizes that are natural numbers, buffers and rings with room for one entry, sentinels
outside the sets they complete, and clipboard contents that have every format. `TelemetryAssumption` keeps a batch within the buffer, as
the constants of the code do; `GuiAssumption` asks for room for the two events of a resync. A theorem that needs
more says so in an `ASSUME`, and the runs show that it fails without.

* **`RelayProofs`**. The inductive invariant is `TypeOK /\ HandlerInv /\
  RegistryInv`. `RegistryInv` alone is not inductive: that handleRegister's new
  connection is not already closed, and that a set_pool or route in progress
  belongs to a connection that cannot unregister meanwhile, is what `HandlerInv`
  adds. Theorems: `RelayTypeCorrect` (buffers and queues never exceed their
  capacity), `RegistryCorrect`, `HandlersSerialised`.
* **`DeliveryProofs`** extends it. `Once` says that a clip is at most once in a queue, a
  drained batch, a buffer or what a connection received (`Within`), that no two places
  of one device share a clip (`Between`), that nothing is sent before registration
  (`Unused`), and that the copies of the clip being routed which are still to do are nowhere yet
  (`Unrouted`): this last part is what keeps a route, which is one step for each mention of a
  device, from doubling a copy. `DeliveredOnce` (`AtMostOnce`) follows.
  `Replayed` adds that the buffer of a registering connection has no live clip and that
  a connection that has received a live one has no replayed one left to receive; it
  gives `ReplayComesFirst`. `LossesNamed` proves the action property `NoSilentLoss`: the slots
  of the property are first shown to be `Held`, a union of plain sets, and each action
  then keeps every clip of `Held` or has one of the reasons of `LossReason`; that a
  connection leaves only when its peer is gone (`Left`) is needed for the last step.
* **`TokenProofs`**. The invariant adds to `IndexExact` and `NoRevival` that a
  token decided but not committed is fresh (neither valid, indexed nor retired),
  that different connections decided different tokens, and that nothing exceeds the
  number minted; without the freshness of pending tokens a commit could revive
  a retired one. Theorems: `TokenTypeCorrect`, `IndexMatchesRecord`,
  `NoTokenRevived`. `ClientKeepsAccess` and `RestartKeepsAccess` (`NeverLockedOut`,
  `RestartSafe`) assume no overlapping connections; `MCTokenLockout.cfg` shows the
  behaviour that overlap allows. The invariant `Accepted` of the first
  follows the one connection that is served through its rotation: the record is as it
  was when the rotation was decided, and the client holds the token it presented or the
  one on its way. It holds up to the first fault, as the property does. The second has
  failed saves and crashes: its invariant `FileInv` orders the tokens by issue instead. The file's is never
  newer than the one in memory, and the connection that is served presented one that is not
  older than the file's or has just sent the file's; so the only commit that drops the file's
  token is the retirement of the grace token by a connection that presented a newer one.
* **`BlobProofs`**. The invariant is `TypeOK /\ HasChannel /\ NoLostWakeup /\
  PinsSeen`. `NoLostWakeup` needs `HasChannel`: a download between add and the end of
  its wait has its channel registered or closed. `PinsSeen` says that while a pass of
  RunGC runs, the blob of a queued clip was pinned when the pass began or its clip
  was queued since (`late`); with it no step of the pass removes bytes that a clip
  queued before needs. Theorems: `BlobTypeCorrect`, `WakeupNeverLost`,
  `PinnedBytesKept` (the action property `OldPinsKept`). `RecipientsServed`
  (`RecipientServed`) needs `Entitled`: whoever has a clip, or is about to, is granted its
  blob by the persisted record, which is written before the clip is routed. It holds with
  collection, re-routing and crashes: what takes a grant away is in `withdrawn` when it does so,
  and section 3 has the behaviours.
* **`EngineProofs`**. The inductive invariant has the types of the values that flow
  from the clipboard through commands and workers to clips (`TypeInv`), the ring of holds
  (`Holds`), the places of an upload (`Apart`, `Kept`) and the watcher's memory (`Watched`).
  `UploadOnce` is not inductive without `Apart`, which also says that a worker, a result,
  a stashed and an advertised clip never share a number; `OneClipPerCopy` needs that a copy which was polled
  whole has nothing new left. Theorems: `TypeCorrect`, `EachCopyOnce`, `UploadedOnce`,
  `HoldsBounded`. `HoldsSurvive` (`HoldKept`) assumes an end-to-end key, with which
  each offer has an id of its own and the order of the ring is that of the offers
  (`Sealed`). Without a key it is false: an edited file is uploaded under
  another id, and offering again a file that is still held does not renew its place.
  `EchoSuppressed` (`NoEcho`) has no condition. Its invariant
  `Guarded` says that whatever is on its way from the clipboard to the check (unseen content,
  the poll's reading, a command, the files of a copy) is the user's, in a ring with its window open,
  or has lapsed; `Settled` is why a platform without a sequence number, which polls an old
  content again, does not pick it up; `Single` is why a received clip has no companion
  format that could be. So an echo goes out only through a guard that lapsed; that this
  happens is `MCEngineEcho.cfg`.
* **`AgentProofs`**. `TypeCorrect` is more than types: it says that start and a relaunch always
  find a supervisor and a launch to take, which rests on counting (`Slots`, `Relaunches`)
  and on which supervisor owns which launch (`Owned`). `NeverTwoEngines` (`OneEngine`)
  adds `Handled`: a supervisor that is not on its way out is the stored one or belongs to
  the one thread between `StartTake` and `StartStore`. It assumes one pairing thread; with two,
  section 3 has the behaviour.
* **`TelemetryProofs`**. `ConfigInv` has the stages of requests and engines (`Stages`) and, for an
  agent that is up and not spoiled, `Calm`: at most one writer is under way (`Alone`), what a
  request between its steps will leave in the file is what is in force (`Handled`), and with no
  request the file and the running engine agree (`Rested`). `SettingsKept` is its last part and not
  inductive without the others. `BufInv` counts lines: buffer and batch never hold more than were logged.
  Theorems: `TypeCorrect`, `SettingsPersist`, `NoLineLost`, and `Implements`, the refinement
  of `Outbox`: initial states map to initial states, every step to a step of `Outbox` or a stutter.
* **`GuiProofs`**. `Stream` is the
  invariant of the mirror: the bus ends with the present state or does not speak of it; then, if
  the connection has not lagged, the socket ends with it, or does not speak of it either and
  the mirror shows it. That the newest of several events exists is proved from
  well-foundedness of the naturals (`LeastNat`). Theorems: `GuiTypeCorrect`, `MirrorFollows`
  (`MirrorConverges`, with the two conditions of `pub`: without them it is `MirrorFresh`, which
  `MCGuiFresh.cfg` refutes).

Only model-checked are the liveness properties (`DeadConnsLeave`, `RegisterCompletes`,
`GetsFinish`, `UploadsAdvertised`, `OrphansGone`, `PanicRecovers`, `StatusTruthful`, `AgentBack`,
`WorkEnds`, `QuitIsFinal`): fairness and `ENABLED` are out of the prover's reach. Every invariant, every
action property of safety and the refinement that the runs check are also proved.

*What the proofs found in the model.* `Gui` counted every roster that a frame pulled as carried by
the stream; the proof of `MirrorConverges` failed where an older roster is still in the socket at the first
frame and is shown after it. With room for two events that never happened in the run. `RosterPulled`
now excludes it, and the run has room for three.

## 5. Not modelled, and why

Text and image contents, encryption, the privacy patterns, TLS, mDNS, the history
database, drawing, the web UI and the Android screens: data and I/O without the state the properties
are about. Token and size checks of a blob request are a failed request. Store errors
other than a crash are not modelled: the code logs and goes on. The agent's requests
that hand one value to the engine (targets, pool, reconnect) and its history queries
are left out of `Agent` and `Gui`; two agents that start at once are one in `Gui`,
as the second ends when it cannot bind the socket. The Android client's capture,
presence contents, the server's pairing codes (claimed in one transaction), settings
(RefreshSettings can publish two saves in the other order, `hub.go:175`) and sessions
are not modelled yet.

## 6. Plan

1. Done: `Relay`, `TokenRotation`, `BlobChannel` with their first theorems; `Engine`;
   `Agent`, `AgentConfig`, `Telemetry` with its refinement of `Outbox`, `Gui`.
2. Done: the theorems of section 4, for every safety property of the runs.
3. Next in the proofs: what a client has left when the assumptions of `ClientKeepsAccess` fail (a
   crash of the server after the commit, say), `OneEngine` for two pairing threads outside
   the window between `StartTake` and `StartStore`, and a composition of `AgentConfig` with
   `TokenRotation` for the relaunch with an old token.
4. `Presence`: the roster each client sees, against the registry, with the engine's
   roster and set_pool; server settings; the Android capture engine where it differs
   from `Engine`; `Delivery`, an abstract specification of delivery to one device.
