------------------------------- MODULE Relay -------------------------------
(***************************************************************************)
(* The clip relay of the CopySync server: the hub's registry of connected  *)
(* devices (internal/hub), the WebSocket connections that feed it          *)
(* (internal/transport) and the per-device offline queue kept in bbolt     *)
(* (internal/store/queue.go).                                              *)
(*                                                                         *)
(* Goroutines.  The hub's Run loop handles one request at a time; every    *)
(* connection has a serve/readPump goroutine (its `phase') and a           *)
(* writePump that moves frames from `send' to the network; the admin's     *)
(* HTTP handlers and the housekeeping ticker use the store directly.  Each *)
(* bbolt transaction is one step, so that a handler with two transactions  *)
(* can be interleaved with the other goroutines.                           *)
(*                                                                         *)
(* Clips are numbered in the order in which the hub accepts them, which is *)
(* also the order of their EnqueuedAt stamps.  A sender's target list may  *)
(* name a device several times, and every mention makes a copy of its own: *)
(* a copy is the clip's number and the mention it answers, which the code  *)
(* does not keep and the properties count by.  Frames that carry no clip   *)
(* (hello_ok, presence, ack) only matter for the slot they take in a send  *)
(* buffer and are all written Ctl; token_rotate is in TokenRotation.       *)
(***************************************************************************)
EXTENDS Naturals, Sequences, FiniteSets

CONSTANTS
    Devices,      \* device ids paired with the server
    Conns,        \* WebSocket connections, each used once
    Pools,        \* share pools
    DefaultPool,  \* the pool an empty or unknown name stands for
    SendBuf,      \* capacity of Client.Send (64 in the code)
    QueueDepth,   \* QueueDepthPerDevice (200 by default)
    MaxClips,     \* bound: clips the hub accepts in a behaviour
    MaxNamed,     \* bound: how often a target list names the same device
    MaxFaults,    \* bound: crashes, device deletions and TTL purges together
    NoConn,       \* no connection
    NoDev         \* no device (also the synthetic "server" origin)

ASSUME RelayConstants ==
    /\ SendBuf \in Nat \ {0}
    /\ QueueDepth \in Nat \ {0}
    /\ MaxClips \in Nat
    /\ MaxNamed \in Nat \ {0}
    /\ MaxFaults \in Nat
    /\ DefaultPool \in Pools
    /\ NoConn \notin Conns
    /\ NoDev \notin Devices

VARIABLES
    devices,   \* device records in the store
    tokens,    \* devices that have a token record in the store
    pool,      \* pool field of each device record
    queue,     \* offline queue of each device: copies, oldest key first
    evicting,  \* devices deleted by an admin whose Hub.Evict call is pending
    clients,   \* the hub's registry: device -> connection
    hub,       \* the request the Run loop is in the middle of
    connDev,   \* device a connection authenticated as
    phase,     \* where the connection's serve goroutine is
    done,      \* Client.done is closed (evicted or replaced)
    link,      \* "up", "half" (peer gone, server has not noticed), "down"
    send,      \* Client.Send
    batch,     \* queue items drained by Register and not yet delivered
    got,       \* clip frames the device received on the connection
    nextClip,  \* number of the next clip the hub accepts
    faults     \* crashes, deletions and purges so far

storeVars == <<devices, tokens, pool, queue>>
connVars  == <<connDev, phase, done, link, send, batch, got>>
vars == <<devices, tokens, pool, queue, evicting, clients, hub, connDev, phase,
          done, link, send, batch, got, nextClip, faults>>

-----------------------------------------------------------------------------
(* State formulae *)

Phases == {"fresh", "validated", "drained", "registering", "requeue", "reading",
           "busy", "acking", "leaving", "closed"}

\* Phases between handleRegister and handleUnregister of a connection.
Registered == {"registering", "requeue", "reading", "busy", "acking", "leaving"}

Clips == 1..MaxClips
Copies == Clips \X (1..MaxNamed)

\* A frame in a send buffer: a clip relayed live, a clip replayed from the
\* offline queue, or a frame without a clip.
Frames == [kind : {"live", "replay"}, clip : Copies] \cup [kind : {"ctl"}, clip : {<<0, 0>>}]
Ctl == [kind |-> "ctl", clip |-> <<0, 0>>]
Live(n) == [kind |-> "live", clip |-> n]
Replay(n) == [kind |-> "replay", clip |-> n]

\* What is left of a target list: how many times each device is still to be served.
Tasks == [Devices -> 0..MaxNamed]
NoTask == [d \in Devices |-> 0]

Idle == [op |-> "idle", conn |-> NoConn, clip |-> 0, todo |-> NoTask, pool |-> DefaultPool]

\* Mutant: one frame more than the buffer holds.
HasRoom_OffByOne(s) == Len(s) <= SendBuf

\* Client.Enqueue: a non-blocking send, refused when the buffer is full.
HasRoom(s) == Len(s) < SendBuf

\* Client.Enqueue when the result is ignored.
Push(s, f) == IF HasRoom(s) THEN Append(s, f) ELSE s

\* Client.Close of connection c, if there is one.
Closed(c) == [e \in Conns |-> IF e = c THEN TRUE ELSE done[e]]

\* Mutant: the depth is compared before the new item is counted.
StoreEnqueue_TrimEarly(q, n) ==
    IF Len(q) + 1 < QueueDepth THEN Append(q, n) ELSE Append(Tail(q), n)

\* store.Enqueue: append, then trim the oldest keys beyond the depth.
StoreEnqueue(q, n) == IF Len(q) < QueueDepth THEN Append(q, n) ELSE Append(Tail(q), n)

\* poolOf: the pool of a device record; an unknown device is in "default".
poolOf(d) == IF d \in devices THEN pool[d] ELSE DefaultPool

\* broadcastPresence: one frame to every registered client but `exclude';
\* the result of Enqueue is ignored.
broadcastPresence(sends, registry, exclude) ==
    [c \in Conns |-> IF \E d \in Devices \ {exclude} : registry[d] = c
                     THEN Push(sends[c], Ctl) ELSE sends[c]]

Init ==
    /\ devices = Devices
    /\ tokens = Devices
    /\ pool = [d \in Devices |-> DefaultPool]
    /\ queue = [d \in Devices |-> <<>>]
    /\ evicting = {}
    /\ clients = [d \in Devices |-> NoConn]
    /\ hub = Idle
    /\ connDev = [c \in Conns |-> NoDev]
    /\ phase = [c \in Conns |-> "fresh"]
    /\ done = [c \in Conns |-> FALSE]
    /\ link = [c \in Conns |-> "down"]
    /\ send = [c \in Conns |-> <<>>]
    /\ batch = [c \in Conns |-> <<>>]
    /\ got = [c \in Conns |-> <<>>]
    /\ nextClip = 1
    /\ faults = 0

-----------------------------------------------------------------------------
(* A connection's serve goroutine: hello, Register, readPump, Unregister *)

\* A client dials (only once its previous link is gone), sends hello and
\* ValidateToken accepts it: the device record and its token are both there.
Hello(c, d) ==
    /\ phase[c] = "fresh"
    /\ \A e \in Conns : connDev[e] = d => link[e] # "up"
    /\ d \in devices /\ d \in tokens
    /\ connDev' = [connDev EXCEPT ![c] = d]
    /\ phase' = [phase EXCEPT ![c] = "validated"]
    /\ link' = [link EXCEPT ![c] = "up"]
    /\ UNCHANGED <<storeVars, evicting, clients, hub, done, send, batch, got,
                   nextClip, faults>>

\* Mutant: the drained bucket is not deleted.
DrainQueue_KeepsBucket(c) ==
    /\ phase[c] = "validated"
    /\ batch' = [batch EXCEPT ![c] = queue[connDev[c]]]
    /\ phase' = [phase EXCEPT ![c] = "drained"]
    /\ UNCHANGED <<storeVars, evicting, clients, hub, connDev, done, link, send,
                   got, nextClip, faults>>

\* Register, first part: DrainQueue on the connection's own goroutine.
DrainQueue(c) ==
    /\ phase[c] = "validated"
    /\ batch' = [batch EXCEPT ![c] = queue[connDev[c]]]
    /\ queue' = [queue EXCEPT ![connDev[c]] = <<>>]
    /\ phase' = [phase EXCEPT ![c] = "drained"]
    /\ UNCHANGED <<devices, tokens, pool, evicting, clients, hub, connDev, done,
                   link, send, got, nextClip, faults>>

\* handleRegister on the Run goroutine: replace an older connection, insert the
\* new one and enqueue hello_ok into its empty buffer.
handleRegister(c) ==
    LET d == connDev[c]
    IN  /\ hub.op = "idle"
        /\ phase[c] = "drained"
        /\ done' = Closed(clients[d])
        /\ clients' = [clients EXCEPT ![d] = c]
        /\ send' = [send EXCEPT ![c] = <<Ctl>>]
        /\ hub' = [Idle EXCEPT !.op = "register", !.conn = c]
        /\ phase' = [phase EXCEPT ![c] = "registering"]
        /\ UNCHANGED <<storeVars, evicting, connDev, link, batch, got, nextClip, faults>>

\* handleRegister's loop: one drained clip into the send buffer, which writePump
\* is already emptying.
RegisterReplay ==
    LET c == hub.conn
    IN  /\ hub.op = "register"
        /\ batch[c] # <<>> /\ HasRoom(send[c])
        /\ send' = [send EXCEPT ![c] = Append(send[c], Replay(Head(batch[c])))]
        /\ batch' = [batch EXCEPT ![c] = Tail(batch[c])]
        /\ UNCHANGED <<storeVars, evicting, clients, hub, connDev, phase, done, link,
                       got, nextClip, faults>>

\* handleRegister ends, at the first clip that does not fit or after the last:
\* presence to the others, and the undelivered tail is handed back to Register.
RegisterReturn ==
    LET c == hub.conn
    IN  /\ hub.op = "register"
        /\ batch[c] = <<>> \/ ~HasRoom(send[c])
        /\ send' = broadcastPresence(send, clients, connDev[c])
        /\ phase' = [phase EXCEPT ![c] = IF batch[c] = <<>> THEN "reading" ELSE "requeue"]
        /\ hub' = Idle
        /\ UNCHANGED <<storeVars, evicting, clients, connDev, done, link, batch, got,
                       nextClip, faults>>

\* Mutant: the tail is pushed to the send buffer again instead of the store.
Requeue_ToBuffer(c) ==
    /\ phase[c] = "requeue"
    /\ HasRoom(send[c])
    /\ send' = [send EXCEPT ![c] = Append(send[c], Replay(Head(batch[c])))]
    /\ batch' = [batch EXCEPT ![c] = Tail(batch[c])]
    /\ phase' = [phase EXCEPT ![c] = IF Len(batch[c]) = 1 THEN "reading" ELSE "requeue"]
    /\ UNCHANGED <<storeVars, evicting, clients, hub, connDev, done, link, got,
                   nextClip, faults>>

\* Register, last part: one store.Enqueue per item of the undelivered tail.
Requeue(c) ==
    LET d == connDev[c]
    IN  /\ phase[c] = "requeue"
        /\ queue' = [queue EXCEPT ![d] = StoreEnqueue(queue[d], Head(batch[c]))]
        /\ batch' = [batch EXCEPT ![c] = Tail(batch[c])]
        /\ phase' = [phase EXCEPT ![c] = IF Len(batch[c]) = 1 THEN "reading" ELSE "requeue"]
        /\ UNCHANGED <<devices, tokens, pool, evicting, clients, hub, connDev,
                       done, link, send, got, nextClip, faults>>

\* c.Read fails: the peer closed, idleWatchdog gave up on a silent peer, or
\* writePump closed the socket.
ReadEnd(c) ==
    /\ phase[c] = "reading"
    /\ link[c] # "up"
    /\ phase' = [phase EXCEPT ![c] = "leaving"]
    /\ link' = [link EXCEPT ![c] = "down"]
    /\ UNCHANGED <<storeVars, evicting, clients, hub, connDev, done, send,
                   batch, got, nextClip, faults>>

\* handleUnregister, then serve returns and the send buffer is garbage.  The
\* registry entry is removed only if it still is this connection.
handleUnregister(c) ==
    LET d == connDev[c]
    IN  /\ hub.op = "idle"
        /\ phase[c] = "leaving"
        /\ clients' = [clients EXCEPT ![d] = IF @ = c THEN NoConn ELSE @]
        /\ send' = LET cleared == [send EXCEPT ![c] = <<>>]
                   IN  IF clients[d] = c THEN broadcastPresence(cleared, clients', NoDev)
                       ELSE cleared
        /\ phase' = [phase EXCEPT ![c] = "closed"]
        /\ UNCHANGED <<storeVars, evicting, hub, connDev, done, link, batch, got,
                       nextClip, faults>>

-----------------------------------------------------------------------------
(* writePump, idleWatchdog and the network *)

\* writePump writes the frame at the head of Send.  It may pick Send even when
\* Done is closed too; a frame written to a vanished peer is lost.
WriteFrame(c) ==
    /\ link[c] # "down"
    /\ send[c] # <<>>
    /\ send' = [send EXCEPT ![c] = Tail(send[c])]
    /\ got' = IF link[c] = "up" /\ Head(send[c]) # Ctl
              THEN [got EXCEPT ![c] = Append(got[c], Head(send[c]))] ELSE got
    /\ UNCHANGED <<storeVars, evicting, clients, hub, connDev, phase, done, link,
                   batch, nextClip, faults>>

\* The peer closes or vanishes; the server has not noticed yet.
LinkLost(c) ==
    /\ link[c] = "up"
    /\ link' = [link EXCEPT ![c] = "half"]
    /\ UNCHANGED <<storeVars, evicting, clients, hub, connDev, phase, done, send,
                   batch, got, nextClip, faults>>

\* Mutant: Done is only looked at once the peer is gone.
ServerClose_PeerGone(c) ==
    /\ done[c]
    /\ link[c] = "half"
    /\ link' = [link EXCEPT ![c] = "down"]
    /\ UNCHANGED <<storeVars, evicting, clients, hub, connDev, phase, done, send,
                   batch, got, nextClip, faults>>

\* writePump saw Done and closes the socket.
ServerClose(c) ==
    /\ done[c]
    /\ link[c] # "down"
    /\ link' = [link EXCEPT ![c] = "down"]
    /\ UNCHANGED <<storeVars, evicting, clients, hub, connDev, phase, done, send,
                   batch, got, nextClip, faults>>

-----------------------------------------------------------------------------
(* The hub's Run loop: routing, pools, eviction *)

\* resolveTargets: the devices of the origin's pool, each once, or the listed devices
\* that have a record, as often as the list names them; the loop skips the origin.
\* The order of the list does not matter to the properties and is left open.
resolveTargets(origin, sel) ==
    [d \in Devices |->
        IF d = origin \/ d \notin devices THEN 0
        ELSE IF sel.all THEN (IF pool[d] = poolOf(origin) THEN 1 ELSE 0)
        ELSE sel.list[d]]
Selections == [all : {TRUE}, list : {NoTask}] \cup [all : {FALSE}, list : Tasks]

\* readPump read a clip and called Route: handleRoute up to its loop over the
\* targets.  The frame may have been read before the socket was closed, so the
\* state of the link does not matter.
handleRoute(c, sel) ==
    /\ hub.op = "idle"
    /\ phase[c] = "reading"
    /\ nextClip <= MaxClips
    /\ hub' = [op |-> "route", conn |-> c, clip |-> nextClip,
               todo |-> resolveTargets(connDev[c], sel), pool |-> DefaultPool]
    /\ nextClip' = nextClip + 1
    /\ phase' = [phase EXCEPT ![c] = "busy"]
    /\ UNCHANGED <<storeVars, evicting, clients, connDev, done, link, send, batch,
                   got, faults>>

\* handleRoute's early return: plaintext while E2E is enforced is rejected and
\* the sender only gets its ack.
RouteRejected(c) ==
    /\ hub.op = "idle"
    /\ phase[c] = "reading"
    /\ nextClip <= MaxClips
    /\ nextClip' = nextClip + 1
    /\ phase' = [phase EXCEPT ![c] = "acking"]
    /\ UNCHANGED <<storeVars, evicting, clients, hub, connDev, done, link, send,
                   batch, got, faults>>

\* handleBroadcast: the admin routes a clip of the server to every device.
handleBroadcast ==
    /\ hub.op = "idle"
    /\ nextClip <= MaxClips
    /\ hub' = [op |-> "route", conn |-> NoConn, clip |-> nextClip,
               todo |-> [d \in Devices |-> IF d \in devices THEN 1 ELSE 0], pool |-> DefaultPool]
    /\ nextClip' = nextClip + 1
    /\ UNCHANGED <<storeVars, connVars, evicting, clients, faults>>

\* Mutant: the hub waits for room in the target's send buffer.
RouteTarget_Blocking(d) ==
    LET c == clients[d]
        copy == <<hub.clip, hub.todo[d]>>
    IN  /\ hub.op = "route"
        /\ hub.todo[d] > 0
        /\ hub' = [hub EXCEPT !.todo[d] = @ - 1]
        /\ IF c # NoConn
           THEN /\ HasRoom(send[c])
                /\ send' = [send EXCEPT ![c] = Append(send[c], Live(copy))]
                /\ UNCHANGED queue
           ELSE /\ queue' = [queue EXCEPT ![d] = StoreEnqueue(queue[d], copy)]
                /\ UNCHANGED send
        /\ UNCHANGED <<devices, tokens, pool, evicting, clients, connDev, phase, done,
                       link, batch, got, nextClip, faults>>

\* One iteration of handleRoute's loop, for one mention of the device: deliver to a
\* registered client with room; otherwise evict the slow client, if any, and queue
\* the clip.
RouteTarget(d) ==
    LET c == clients[d]
        online == c # NoConn
        copy == <<hub.clip, hub.todo[d]>>
    IN  /\ hub.op = "route"
        /\ hub.todo[d] > 0
        /\ hub' = [hub EXCEPT !.todo[d] = @ - 1]
        /\ IF online /\ HasRoom(send[c])
           THEN /\ send' = [send EXCEPT ![c] = Append(send[c], Live(copy))]
                /\ UNCHANGED <<queue, clients, done>>
           ELSE /\ done' = Closed(c)
                /\ clients' = [clients EXCEPT ![d] = NoConn]
                /\ queue' = [queue EXCEPT ![d] = StoreEnqueue(queue[d], copy)]
                /\ UNCHANGED send
        /\ UNCHANGED <<devices, tokens, pool, evicting, connDev, phase, link,
                       batch, got, nextClip, faults>>

\* Mutant: the hub forgets to answer on the reply channel.
RouteReturn_NoReply ==
    /\ hub.op = "route"
    /\ hub.todo = NoTask
    /\ hub' = Idle
    /\ UNCHANGED <<storeVars, connVars, evicting, clients, nextClip, faults>>

\* handleRoute replies to the readPump that called Route, if it was one.
RouteReturn ==
    /\ hub.op = "route"
    /\ hub.todo = NoTask
    /\ hub' = Idle
    /\ phase' = [c \in Conns |-> IF c = hub.conn THEN "acking" ELSE phase[c]]
    /\ UNCHANGED <<storeVars, evicting, clients, connDev, done, link, send, batch, got,
                   nextClip, faults>>

\* readPump enqueues the ack, by now next to the hub, and goes on reading.
Ack(c) ==
    /\ phase[c] = "acking"
    /\ send' = [send EXCEPT ![c] = Push(send[c], Ctl)]
    /\ phase' = [phase EXCEPT ![c] = "reading"]
    /\ UNCHANGED <<storeVars, evicting, clients, hub, connDev, done, link, batch, got,
                   nextClip, faults>>

\* readPump read a set_pool: handleSetPool's GetDevice.  Nothing happens when
\* the record is gone or the pool is the same.
handleSetPool(c, p) ==
    LET d == connDev[c]
    IN  /\ hub.op = "idle"
        /\ phase[c] = "reading"
        /\ d \in devices /\ pool[d] # p
        /\ hub' = [Idle EXCEPT !.op = "setpool", !.conn = c, !.pool = p]
        /\ phase' = [phase EXCEPT ![c] = "busy"]
        /\ UNCHANGED <<storeVars, evicting, clients, connDev, done, link, send,
                       batch, got, nextClip, faults>>

\* handleSetPool's PutDevice, which writes the record it read, and presence.
SetPoolPut ==
    LET d == connDev[hub.conn]
    IN  /\ hub.op = "setpool"
        /\ devices' = devices \cup {d}
        /\ pool' = [pool EXCEPT ![d] = hub.pool]
        /\ send' = broadcastPresence(send, clients, NoDev)
        /\ phase' = [phase EXCEPT ![hub.conn] = "reading"]
        /\ hub' = Idle
        /\ UNCHANGED <<tokens, queue, evicting, clients, connDev, done, link,
                       batch, got, nextClip, faults>>

\* Mutant: the connection is closed but stays in the registry.
handleEvict_KeepsEntry(d) ==
    /\ hub.op = "idle"
    /\ d \in evicting
    /\ evicting' = evicting \ {d}
    /\ done' = Closed(clients[d])
    /\ send' = broadcastPresence(send, clients, NoDev)
    /\ UNCHANGED <<storeVars, clients, hub, connDev, phase, link, batch, got,
                   nextClip, faults>>

\* handleEvict: close and drop the device's connection, if it has one.
handleEvict(d) ==
    LET c == clients[d]
    IN  /\ hub.op = "idle"
        /\ d \in evicting
        /\ evicting' = evicting \ {d}
        /\ done' = Closed(c)
        /\ clients' = [clients EXCEPT ![d] = NoConn]
        /\ send' = IF c = NoConn THEN send ELSE broadcastPresence(send, clients', NoDev)
        /\ UNCHANGED <<storeVars, hub, connDev, phase, link, batch, got, nextClip,
                       faults>>

-----------------------------------------------------------------------------
(* The admin API, housekeeping and crashes *)

\* handleDeleteDevice: DeleteDevice in one transaction, then Evict.  Nothing
\* checks that the device is still there.
DeleteDevice(d) ==
    /\ faults < MaxFaults
    /\ faults' = faults + 1
    /\ devices' = devices \ {d}
    /\ tokens' = tokens \ {d}
    /\ queue' = [queue EXCEPT ![d] = <<>>]
    /\ evicting' = evicting \cup {d}
    /\ UNCHANGED <<pool, connVars, clients, hub, nextClip>>

\* r is the queue q without the items numbered k or less, in the same order.
Purged(q, r, k) ==
    \E f \in [DOMAIN r -> DOMAIN q] :
        /\ \A i \in DOMAIN r : r[i] = q[f[i]]
        /\ \A i, j \in DOMAIN r : i < j => f[i] < f[j]
        /\ {f[i] : i \in DOMAIN r} = {i \in DOMAIN q : q[i][1] > k}

\* PurgeExpiredQueueItems, in one transaction: drop the items older than the
\* TTL, which are those up to some clip number k.
PurgeExpired(k) ==
    /\ \E d \in Devices : \E i \in DOMAIN queue[d] : queue[d][i][1] = k
    /\ faults < MaxFaults
    /\ faults' = faults + 1
    /\ \E kept \in [Devices -> UNION {[1..n -> Copies] : n \in 0..QueueDepth}] :
          /\ \A d \in Devices : Purged(queue[d], kept[d], k)
          /\ queue' = kept
    /\ UNCHANGED <<devices, tokens, pool, connVars, evicting, clients, hub, nextClip>>

\* The server process dies and is restarted: the store survives, the hub, the
\* connections and pending admin requests do not.
Crash ==
    /\ faults < MaxFaults
    /\ faults' = faults + 1
    /\ evicting' = {}
    /\ clients' = [d \in Devices |-> NoConn]
    /\ hub' = Idle
    /\ phase' = [c \in Conns |-> IF phase[c] = "fresh" THEN "fresh" ELSE "closed"]
    /\ done' = [c \in Conns |-> FALSE]
    /\ link' = [c \in Conns |-> "down"]
    /\ send' = [c \in Conns |-> <<>>]
    /\ batch' = [c \in Conns |-> <<>>]
    /\ UNCHANGED <<storeVars, connDev, got, nextClip>>

-----------------------------------------------------------------------------
ServeStep(c) ==
    \/ DrainQueue(c) \/ handleRegister(c) \/ Requeue(c) \/ Ack(c)
    \/ ReadEnd(c) \/ handleUnregister(c)

PumpStep(c) == WriteFrame(c) \/ ServerClose(c)

HubStep ==
    \/ RegisterReplay
    \/ RegisterReturn
    \/ \E d \in Devices : RouteTarget(d)
    \/ RouteReturn
    \/ SetPoolPut

ClientStep(c) ==
    \/ \E d \in Devices : Hello(c, d)
    \/ \E sel \in Selections : handleRoute(c, sel)
    \/ RouteRejected(c)
    \/ \E p \in Pools : handleSetPool(c, p)
    \/ LinkLost(c)

AdminStep ==
    \/ handleBroadcast
    \/ \E d \in Devices : DeleteDevice(d) \/ handleEvict(d)
    \/ \E k \in Clips : PurgeExpired(k)
    \/ Crash

Next ==
    \/ \E c \in Conns : ServeStep(c) \/ PumpStep(c) \/ ClientStep(c)
    \/ HubStep
    \/ AdminStep

Spec == Init /\ [][Next]_vars

-----------------------------------------------------------------------------
(* Properties *)

\* Type invariant of the store, the registry, the hub and the connections; the
\* send buffers and the offline queues respect their capacity.
TypeOK ==
    /\ devices \subseteq Devices
    /\ tokens \subseteq Devices
    /\ pool \in [Devices -> Pools]
    /\ queue \in [Devices -> Seq(Copies)]
    /\ evicting \subseteq Devices
    /\ clients \in [Devices -> Conns \cup {NoConn}]
    /\ hub \in [op : {"idle", "register", "route", "setpool"}, conn : Conns \cup {NoConn},
               clip : 0..MaxClips, todo : Tasks, pool : Pools]
    /\ connDev \in [Conns -> Devices \cup {NoDev}]
    /\ phase \in [Conns -> Phases]
    /\ done \in [Conns -> BOOLEAN]
    /\ link \in [Conns -> {"up", "half", "down"}]
    /\ send \in [Conns -> Seq(Frames)]
    /\ \A c \in Conns : Len(send[c]) <= SendBuf
    /\ \A d \in Devices : Len(queue[d]) <= QueueDepth
    /\ batch \in [Conns -> Seq(Copies)]
    /\ got \in [Conns -> Seq(Frames)]
    /\ nextClip \in 1..(MaxClips + 1)
    /\ faults \in 0..MaxFaults

\* The registry never holds a connection that was told to go away, that belongs
\* to another device or that already unregistered; and a connection that
\* registered, was not closed by the hub and has not unregistered yet is the one
\* in the registry.  So a late Unregister of a replaced connection can never
\* disconnect its successor, and no connection keeps running that the hub can
\* neither reach nor has closed (handleRegister, handleUnregister, handleEvict,
\* the slow-client branch of handleRoute).
RegistryInv ==
    /\ \A d \in Devices : clients[d] # NoConn =>
          /\ connDev[clients[d]] = d
          /\ phase[clients[d]] \in Registered
          /\ ~done[clients[d]]
    /\ \A c \in Conns : phase[c] \in Registered /\ ~done[c] => clients[connDev[c]] = c

\* What the handlers in progress rely on: a connection past the handshake has a
\* device and was not closed before it registered, a connection re-persisting a
\* tail has one, and the connection whose request the hub is handling is blocked
\* until the hub returns (Register, Route and SetPool wait on a reply channel).
HandlerInv ==
    /\ \A c \in Conns : phase[c] # "fresh" => connDev[c] \in Devices
    /\ \A c \in Conns : phase[c] \in {"fresh", "validated", "drained"} => ~done[c]
    /\ \A c \in Conns : phase[c] = "requeue" => batch[c] # <<>>
    /\ \A c \in Conns : phase[c] = "busy" <=> hub.op \in {"route", "setpool"} /\ hub.conn = c
    /\ \A c \in Conns : phase[c] = "registering" <=> hub.op = "register" /\ hub.conn = c
    /\ hub.op \in {"register", "setpool"} => hub.conn # NoConn
    /\ hub.op = "route" => hub.clip \in 1..(nextClip - 1)

\* Where a copy of a clip for device d can be: in the offline queue, in a batch
\* drained by Register, in a send buffer or received.
Slots(d) ==
    {<<"queue", NoConn, i>> : i \in DOMAIN queue[d]} \cup
    UNION {  {<<"batch", c, i>> : i \in DOMAIN batch[c]}
        \cup {<<"send", c, i>> : i \in {j \in DOMAIN send[c] : send[c][j] # Ctl}}
        \cup {<<"got", c, i>> : i \in DOMAIN got[c]} : c \in {e \in Conns : connDev[e] = d}}
ClipAt(d, s) ==
    CASE s[1] = "queue" -> queue[d][s[3]]
      [] s[1] = "batch" -> batch[s[2]][s[3]]
      [] s[1] = "send"  -> send[s[2]][s[3]].clip
      [] s[1] = "got"   -> got[s[2]][s[3]].clip
ClipsHeld(d) == {ClipAt(d, s) : s \in Slots(d)}

\* No copy of a clip is ever doubled, whatever connections come and go while the
\* queue is drained, replayed and re-persisted: a device that the sender's list
\* names k times is handed the clip at most k times, and once if it is named once,
\* shares the origin's pool or gets a broadcast (Register, handleRegister,
\* handleRoute, whose loop serves every mention in the list).
AtMostOnce ==
    \A d \in Devices : \A s, t \in Slots(d) : ClipAt(d, s) = ClipAt(d, t) => s = t

\* On one connection no replayed clip follows a live one, in the buffer or on
\* the wire (handleRegister enqueues the drained queue before any Route runs).
ReplayFirst ==
    \A c \in Conns :
        LET stream == got[c] \o send[c]
        IN  \A i, j \in DOMAIN stream :
                i < j /\ stream[j].kind = "replay" => stream[i].kind # "live"

\* The reasons for which a step may drop copy n, held for device d.
LossReason(d, n) ==
    \/ Crash
    \/ DeleteDevice(d)
    \/ \E k \in Clips : n[1] <= k /\ PurgeExpired(k)
    \/ Len(queue[d]) = QueueDepth /\ Head(queue[d]) = n
    \/ \E c \in Conns : /\ connDev[c] = d /\ link[c] # "up"
                        /\ \E i \in DOMAIN send[c] : send[c][i].clip = n

\* A copy of a clip held for a device disappears only for a named reason: the server
\* crashed, the device was deleted, the TTL passed, a full queue dropped its
\* oldest item, the peer was gone when the frame was written, or the connection
\* was closed with the frame still buffered.
NoSilentLoss ==
    [][\A d \in Devices : \A n \in ClipsHeld(d) \ ClipsHeld(d)' : LossReason(d, n)]_vars

\* What Evict's comment says: once a device is deleted and the eviction has been
\* handled, it has no session that goes on relaying clips (handleEvict).
DeletedDeviceCutOff ==
    \A d \in Devices : d \notin tokens /\ d \notin evicting => clients[d] = NoConn

\* Every goroutine keeps running and Go's select picks a ready channel of the
\* hub at random, so a request that is ready again and again is served.
Fairness ==
    /\ WF_vars(HubStep)
    /\ \A c \in Conns : SF_vars(ServeStep(c)) /\ WF_vars(PumpStep(c))
FairSpec == Spec /\ Fairness

\* A connection whose peer is gone or that the hub told to go away does not
\* linger: it unregisters in the end, whatever else the hub is asked to do
\* (writePump's Done case, idleWatchdog, the deferred Unregister).
DeadConnsLeave ==
    \A c \in Conns : (phase[c] \in Registered /\ (done[c] \/ link[c] # "up"))
                        ~> phase[c] = "closed"

\* A validated connection gets through Register's drain, insert and re-persist
\* steps (Register blocks on the hub; the hub never blocks on a connection).
RegisterCompletes ==
    \A c \in Conns : phase[c] = "validated" ~> phase[c] \in {"reading", "closed"}
=============================================================================
